---- MODULE Spec2Model ----
(***************************************************************************)
(* Model of the execution core of jsh:                                     *)
(*   - ProcessManager  (job table, job control)      src/unnamed/part_002  *)
(*   - PipelineManager (chain evaluator, pipelines)  src/unnamed/part_003  *)
(* Each subsystem has its own specification (SpecJobs, SpecChain,          *)
(* SpecPipe); the variables of the other subsystems stay at their initial  *)
(* values.                                                                 *)
(***************************************************************************)
EXTENDS Integers, Sequences, FiniteSets, TLC

\* ------------------------------------------------------------------------
\* Bounds of the model
\* ------------------------------------------------------------------------
\* number of jobs ever created by runBackground / runForeground
MaxJobs == 2
\* number of links of a command chain
MaxLinks == 4
\* number of stages of a pipeline
MaxStages == 3
\* number of links of a command chain whose pipelines are executed
MaxChained == 2
\* number of stages of a pipeline with output redirections
MaxRedirected == 2
\* number of characters of an input line
MaxLine == 5
\* number of characters of a text given to a tokenizer
MaxText == 5

\* ------------------------------------------------------------------------
\* State
\* ------------------------------------------------------------------------
\* ProcessManager (src/unnamed/part_002)
VARIABLES
  jobObj,                \* the Job objects ever created: id -> Job
  proc,                  \* the ChildProcess of each job: pending notifications
  jobs,                  \* keys of the Map `jobs` (the job table)
  nextJobId,
  currentForegroundJob,  \* id of the referenced Job object, NoJob = undefined
  lastOp                 \* the operation performed last and what it returned

varsJobs == <<jobObj, proc, jobs, nextJobId, currentForegroundJob, lastOp>>

\* PipelineManager.executeCommandChain
VARIABLES
  chains,          \* the CommandChain[] under evaluation
  chainI,          \* the loop index i, counted from 1
  lastResult,
  combinedStdout,
  combinedStderr,
  chainPc,         \* "loop", "returned" (promise fulfilled), "thrown" (rejected)
  chainReturn,     \* the CommandResult returned
  linkLog          \* per link already handled: did it run, and its result

varsChain == <<chains, chainI, lastResult, combinedStdout, combinedStderr,
               chainPc, chainReturn, linkLog>>

\* PipelineManager.executePipeline
VARIABLES
  commands,            \* pipeline.commands
  pipeMode,            \* "none", "empty", "single", "chain", "mixed"
  pipePc,              \* position of the control flow of executePipeline
  spawnI,              \* the loop index i, counted from 1
  processes,           \* the ChildProcess objects spawned, in spawn order
  completedProcesses,
  finalExitCode,
  finalResult,         \* executeMixedPipeline's finalResult
  resolved,            \* the promise of executePipeline is settled
  pipeResult,          \* the CommandResult it resolved to
  pipelineBackground,  \* pipeline.background
  currentInput,        \* executeMixedPipeline's currentInput
  stageLog,            \* the stages executeMixedPipeline started, in order
  orphans              \* processes of earlier pipelines that still run

varsPipe == <<commands, pipeMode, pipePc, spawnI, processes,
              completedProcesses, finalExitCode, finalResult, resolved,
              pipeResult, pipelineBackground, currentInput, stageLog,
              orphans>>

\* the file an output redirection writes to (fs.createWriteStream)
VARIABLES
  outFile,    \* the write stream of the pipeline and the content of its file
  unhandled   \* an 'error' event was emitted with no listener attached

varsFile == <<outFile, unhandled>>

\* the parser of PipelineManager
VARIABLES
  line,       \* the input string
  parsed      \* what the parser made of it

varsParse == <<line, parsed>>

vars == <<varsJobs, varsChain, varsPipe, varsFile, varsParse>>

\* ------------------------------------------------------------------------
\* ProcessManager
\* ------------------------------------------------------------------------

NoJob == 0

\* signal names a caller passes to killJob; SIGBOGUS is not a signal name,
\* so ChildProcess.kill throws on it
Signals == {"SIGTERM", "SIGBOGUS"}
ValidSignals == {"SIGTERM", "SIGKILL", "SIGINT", "SIGSTOP", "SIGCONT"}

\* job ids a caller can name; an id is absent from the table before its job
\* is created and after cleanupCompletedJobs removed it
CallerIds == 1..MaxJobs

\* how a spawned ChildProcess will notify: "ok" emits 'exit' once, "both"
\* may emit 'error' (spawn, kill or send failure) before its 'exit'; after
\* a failed spawn no 'exit' follows, which is the "both" process whose
\* 'exit' is never delivered ("nospawn" names it in NewProc)
SpawnKinds == {"ok", "both"}

\* `settled` is the promise of the call that spawned the process:
\* runBackground is async and returns the job at once ("returned"), the
\* promise of runForeground is "pending" until a handler resolves or
\* rejects it
NewProc(kind) ==
  [exitPending |-> kind \in {"ok", "both"},
   errPending  |-> kind \in {"nospawn", "both"},
   settled     |-> "returned"]

\* resolve / reject of a promise: the first call settles it
Settle(p, how) == IF p.settled = "pending" THEN how ELSE p.settled

\* status of job id as the table sees it ("absent": jobs.get(id) is undefined)
StatusOf(id) == IF id \in jobs THEN jobObj[id].status ELSE "absent"

\* what an operation did: its name and job id, the value it returned, the
\* toBackground argument (of a successful resumeJob), the signals it sent,
\* the status of the
\* job before it (killJob, suspendJob, resumeJob, notifications), whether it
\* threw (every operation catches what ChildProcess.kill throws),
\* whether it directly followed a successful suspendJob of the same job,
\* and whether it directly followed a successful killJob of the same job
\* (notifications)
Op(name, id, ret, bg, sent, pre, afterSuspend) ==
  [op |-> name, id |-> id, ret |-> ret, bg |-> bg, sent |-> sent,
   pre |-> pre, threw |-> FALSE, afterSuspend |-> afterSuspend,
   afterKill |-> FALSE]

\* TRUE when the operation performed last was a successful suspendJob(id)
JustSuspended(id) ==
  lastOp.op = "suspend" /\ lastOp.id = id /\ lastOp.ret

\* TRUE when the operation performed last was a successful killJob(id, _)
JustKilled(id) ==
  lastOp.op = "kill" /\ lastOp.id = id /\ lastOp.ret

\* the record of a notification of job j
Notified(name, j) ==
  [Op(name, j, TRUE, FALSE, {}, jobObj[j].status, FALSE)
     EXCEPT !.afterKill = JustKilled(j)]

InitJobs ==
  /\ jobObj = <<>>
  /\ proc = <<>>
  /\ jobs = {}
  /\ nextJobId = 1
  /\ currentForegroundJob = NoJob
  /\ lastOp = Op("init", NoJob, FALSE, FALSE, {}, "absent", FALSE)

\* a runBackground that installs its job as the current foreground job
runBackgroundInstalling(kind) ==
  /\ nextJobId <= MaxJobs
  /\ jobObj' = Append(jobObj, [status |-> "running", endTime |-> FALSE,
                               background |-> TRUE])
  /\ proc' = Append(proc, NewProc(kind))
  /\ jobs' = jobs \cup {nextJobId}
  /\ nextJobId' = nextJobId + 1
  /\ lastOp' = Op("runBackground", nextJobId, TRUE, FALSE, {}, "absent", FALSE)
  /\ currentForegroundJob' = nextJobId
  /\ UNCHANGED <<varsChain, varsPipe, varsFile, varsParse>>

\* runBackground: spawn, register, attach handlers, return the job
runBackground(kind) ==
  /\ nextJobId <= MaxJobs
  /\ jobObj' = Append(jobObj, [status |-> "running", endTime |-> FALSE,
                               background |-> TRUE])
  /\ proc' = Append(proc, NewProc(kind))
  /\ jobs' = jobs \cup {nextJobId}
  /\ nextJobId' = nextJobId + 1
  /\ lastOp' = Op("runBackground", nextJobId, TRUE, FALSE, {}, "absent", FALSE)
  /\ UNCHANGED currentForegroundJob
  /\ UNCHANGED <<varsChain, varsPipe, varsFile, varsParse>>

\* runForeground: spawn, register, install as the current foreground job;
\* the promise settles in the 'exit' / 'error' handler
runForeground(kind) ==
  /\ nextJobId <= MaxJobs
  /\ jobObj' = Append(jobObj, [status |-> "running", endTime |-> FALSE,
                               background |-> FALSE])
  /\ proc' = Append(proc, [NewProc(kind) EXCEPT !.settled = "pending"])
  /\ jobs' = jobs \cup {nextJobId}
  /\ currentForegroundJob' = nextJobId
  /\ nextJobId' = nextJobId + 1
  /\ lastOp' = Op("runForeground", nextJobId, TRUE, FALSE, {}, "absent", FALSE)
  /\ UNCHANGED <<varsChain, varsPipe, varsFile, varsParse>>

\* handlers that leave the foreground reference alone
FgKeptAfterNotification(j) == currentForegroundJob

\* the foreground reference after a notification of job j: the handlers
\* installed by runForeground clear it, those of runBackground do not
FgAfterNotification(j) ==
  IF jobObj[j].background THEN currentForegroundJob ELSE NoJob

\* process.on('exit') of job j
OnExit(j) ==
  /\ j \in DOMAIN jobObj
  /\ proc[j].exitPending
  /\ proc' = [proc EXCEPT ![j] = [exitPending |-> FALSE, errPending |-> FALSE,
                                  settled |-> Settle(proc[j], "resolved")]]
  /\ jobObj' = [jobObj EXCEPT ![j].status = "completed", ![j].endTime = TRUE]
  /\ currentForegroundJob' = FgAfterNotification(j)
  /\ lastOp' = Notified("exit", j)
  /\ UNCHANGED <<jobs, nextJobId>>
  /\ UNCHANGED <<varsChain, varsPipe, varsFile, varsParse>>

\* process.on('error') of job j
OnError(j) ==
  /\ j \in DOMAIN jobObj
  /\ proc[j].errPending
  /\ proc' = [proc EXCEPT ![j].errPending = FALSE,
                          ![j].settled = Settle(proc[j], "rejected")]
  /\ jobObj' = [jobObj EXCEPT ![j].status = "completed", ![j].endTime = TRUE]
  /\ currentForegroundJob' = FgAfterNotification(j)
  /\ lastOp' = Notified("error", j)
  /\ UNCHANGED <<jobs, nextJobId>>
  /\ UNCHANGED <<varsChain, varsPipe, varsFile, varsParse>>

\* the guard of killJob: `!job || job.status !== 'running'` returns false
KillGuard(id) == StatusOf(id) = "running"

\* a killJob that asserts the completion itself
StatusAfterKillCompleted == "completed"

\* job.status = 'stopped' after job.process.kill(signal) (line 139)
StatusAfterKill == "stopped"

\* killJob(id, signal)
killJob(id, signal) ==
  /\ IF ~KillGuard(id)
       THEN /\ lastOp' = Op("kill", id, FALSE, FALSE, {}, StatusOf(id), FALSE)
            /\ UNCHANGED jobObj
       ELSE IF signal \notin ValidSignals
         \* job.process.kill throws, the catch block returns false
         THEN /\ lastOp' = Op("kill", id, FALSE, FALSE, {}, StatusOf(id), FALSE)
              /\ UNCHANGED jobObj
         ELSE /\ jobObj' = [jobObj EXCEPT ![id].status = StatusAfterKill,
                                          ![id].endTime = TRUE]
              /\ lastOp' = Op("kill", id, TRUE, FALSE, {<<id, signal>>},
                              StatusOf(id), FALSE)
  /\ UNCHANGED <<proc, jobs, nextJobId, currentForegroundJob>>
  /\ UNCHANGED <<varsChain, varsPipe, varsFile, varsParse>>

\* an interrupt that only looks whether a foreground job is set
InterruptGuardAnySet == currentForegroundJob # NoJob

\* the guard of interruptForegroundJob: `!this.currentForegroundJob ||
\* this.currentForegroundJob.status !== 'running'` returns false
InterruptGuard ==
  /\ currentForegroundJob # NoJob
  /\ jobObj[currentForegroundJob].status = "running"

\* interruptForegroundJob()
interruptForegroundJob ==
  /\ IF ~InterruptGuard
       THEN lastOp' = Op("interrupt", currentForegroundJob, FALSE, FALSE, {},
                         "absent", FALSE)
       ELSE lastOp' = Op("interrupt", currentForegroundJob, TRUE, FALSE,
                         {<<currentForegroundJob, "SIGINT">>}, "absent", FALSE)
  /\ UNCHANGED <<jobObj, proc, jobs, nextJobId, currentForegroundJob>>
  /\ UNCHANGED <<varsChain, varsPipe, varsFile, varsParse>>

\* suspendJob that does not look at the status of an existing job
SuspendGuardAnyLive(id) == StatusOf(id) \in {"running", "stopped"}

\* the guard of suspendJob: `!job || job.status !== 'running'` returns false
SuspendGuard(id) == StatusOf(id) = "running"

\* suspendJob(id)
suspendJob(id) ==
  /\ IF ~SuspendGuard(id)
       THEN /\ lastOp' = Op("suspend", id, FALSE, FALSE, {}, StatusOf(id), FALSE)
            /\ UNCHANGED jobObj
       ELSE /\ jobObj' = [jobObj EXCEPT ![id].status = "stopped"]
            /\ lastOp' = Op("suspend", id, TRUE, FALSE, {<<id, "SIGSTOP">>},
                            StatusOf(id), FALSE)
  /\ UNCHANGED <<proc, jobs, nextJobId, currentForegroundJob>>
  /\ UNCHANGED <<varsChain, varsPipe, varsFile, varsParse>>

\* resumeJob that only refuses running jobs
ResumeGuardNotRunning(id) == StatusOf(id) \in {"stopped", "completed"}

\* the guard of resumeJob: `!job || job.status !== 'stopped'` returns false
ResumeGuard(id) == StatusOf(id) = "stopped"

\* the foreground reference after a successful resumeJob(id, background)
FgAfterResume(id, background) ==
  IF background THEN currentForegroundJob ELSE id

\* resumeJob(id, background)
resumeJob(id, background) ==
  /\ IF ~ResumeGuard(id)
       THEN /\ lastOp' = Op("resume", id, FALSE, FALSE, {}, StatusOf(id),
                            JustSuspended(id))
            /\ UNCHANGED <<jobObj, currentForegroundJob>>
       ELSE /\ jobObj' = [jobObj EXCEPT ![id].status = "running"]
            /\ currentForegroundJob' = FgAfterResume(id, background)
            /\ lastOp' = Op("resume", id, TRUE, background, {<<id, "SIGCONT">>},
                            StatusOf(id), JustSuspended(id))
  /\ UNCHANGED <<proc, jobs, nextJobId>>
  /\ UNCHANGED <<varsChain, varsPipe, varsFile, varsParse>>

\* a cleanup that removes every job that is not Running
RemovableNotRunning(id) == jobObj[id].status # "running"

\* `job.status === 'completed'` of cleanupCompletedJobs (line 209)
Removable(id) == jobObj[id].status = "completed"

\* a cleanup that starts the ids again once the table is empty
cleanupRenumbering ==
  /\ jobs' = {id \in jobs : ~Removable(id)}
  /\ nextJobId' = IF jobs' = {} THEN 1 ELSE nextJobId
  /\ lastOp' = Op("cleanup", NoJob, TRUE, FALSE, {}, "absent", FALSE)
  /\ UNCHANGED <<jobObj, proc, currentForegroundJob>>
  /\ UNCHANGED <<varsChain, varsPipe, varsFile, varsParse>>

\* cleanupCompletedJobs()
cleanupCompletedJobs ==
  /\ jobs' = {id \in jobs : ~Removable(id)}
  /\ lastOp' = Op("cleanup", NoJob, TRUE, FALSE, {}, "absent", FALSE)
  /\ UNCHANGED <<jobObj, proc, nextJobId, currentForegroundJob>>
  /\ UNCHANGED <<varsChain, varsPipe, varsFile, varsParse>>

\* getActiveJobs()
getActiveJobs == {id \in jobs : jobObj[id].status = "running"}

\* killAllJobs(): killJob(job.id, 'SIGKILL') for every active job
killAllJobs ==
  /\ jobObj' = [id \in DOMAIN jobObj |->
                  IF id \in getActiveJobs
                    THEN [jobObj[id] EXCEPT !.status = StatusAfterKill,
                                            !.endTime = TRUE]
                    ELSE jobObj[id]]
  /\ lastOp' = Op("killAll", NoJob, TRUE, FALSE,
                  {<<id, "SIGKILL">> : id \in getActiveJobs}, "absent", FALSE)
  /\ UNCHANGED <<proc, jobs, nextJobId, currentForegroundJob>>
  /\ UNCHANGED <<varsChain, varsPipe, varsFile, varsParse>>

NextJobs ==
  \/ \E kind \in SpawnKinds : runBackground(kind)
  \/ \E kind \in SpawnKinds : runForeground(kind)
  \/ \E j \in 1..MaxJobs : OnExit(j)
  \/ \E j \in 1..MaxJobs : OnError(j)
  \/ \E id \in CallerIds, signal \in Signals : killJob(id, signal)
  \/ interruptForegroundJob
  \/ \E id \in CallerIds : suspendJob(id)
  \/ \E id \in CallerIds, background \in BOOLEAN : resumeJob(id, background)
  \/ cleanupCompletedJobs
  \/ killAllJobs


\* ------------------------------------------------------------------------
\* ProcessManager: properties
\* ------------------------------------------------------------------------
AllowedTransitions ==
  {<<"running", "stopped">>, <<"stopped", "running">>,
   <<"running", "completed">>, <<"stopped", "completed">>}

\* C8: a job's status only changes along Running -> Stopped, Stopped ->
\* Running, Running -> Completed, Stopped -> Completed; no step of any
\* operation or notification changes the status of a Completed job.
C8_StatusTransitions ==
  [][\A j \in DOMAIN jobObj :
       jobObj'[j].status # jobObj[j].status
         => <<jobObj[j].status, jobObj'[j].status>> \in AllowedTransitions]_varsJobs

\* an 'exit' notification was processed for a job that was already Completed
C8_Witness ==
  /\ lastOp.op = "exit"
  /\ lastOp.pre = "completed"
  /\ jobObj[lastOp.id].status = "completed"

ControlOps == {"kill", "suspend", "resume"}

\* the job is absent, or in a state the operation is not valid from
Incompatible(op, pre) ==
  \/ pre = "absent"
  \/ op = "suspend" /\ pre # "running"
  \/ op = "resume" /\ pre # "stopped"
  \/ op = "kill" /\ pre = "completed"

C9_Returns ==
  /\ (lastOp.op = "suspend" /\ lastOp.ret) => lastOp.pre = "running"
  /\ (lastOp.op = "resume" /\ lastOp.ret) => lastOp.pre = "stopped"
  /\ (lastOp.op \in ControlOps /\ Incompatible(lastOp.op, lastOp.pre))
       => (~lastOp.ret /\ ~lastOp.threw /\ lastOp.sent = {})

C9_Frame ==
  (lastOp'.op \in ControlOps /\ Incompatible(lastOp'.op, lastOp'.pre))
    => (jobObj' = jobObj /\ jobs' = jobs
        /\ currentForegroundJob' = currentForegroundJob)

\* C9: suspendJob returns true only for an existing Running job, resumeJob
\* only for an existing Stopped job; on an absent job or a job in a state
\* the operation is not valid from, killJob, suspendJob and resumeJob return
\* false, do not throw, send no signal and change no job and not the
\* current-foreground reference.
C9_FailClean == []C9_Returns /\ [][C9_Frame]_varsJobs

\* resumeJob was refused for a Running job while another job is in the table
C9_Witness ==
  /\ lastOp.op = "resume"
  /\ lastOp.pre = "running"
  /\ ~lastOp.ret
  /\ Cardinality(jobs) > 1

\* C10: resumeJob(j, toBackground) directly after a successful suspendJob(j)
\* returns true and leaves j Running, with the current-foreground reference
\* empty when toBackground is true and designating j when it is false.
C10_ResumeAfterSuspend ==
  (lastOp.op = "resume" /\ lastOp.afterSuspend)
    => /\ lastOp.ret
       /\ jobObj[lastOp.id].status = "running"
       /\ lastOp.bg => currentForegroundJob = NoJob
       /\ ~lastOp.bg => currentForegroundJob = lastOp.id

\* C11: killJob(id, signal) with a signal name, on a job that exists and is
\* Running or Stopped, sends that signal to the job and returns true.
C11_KillFromRunningOrStopped ==
  [][\A id \in CallerIds, signal \in Signals \cap ValidSignals :
       (killJob(id, signal) /\ StatusOf(id) \in {"running", "stopped"})
         => /\ lastOp'.ret
            /\ lastOp'.sent = {<<id, signal>>}]_varsJobs

\* the same for Running jobs only
KillFromRunning ==
  [][\A id \in CallerIds, signal \in Signals \cap ValidSignals :
       (killJob(id, signal) /\ StatusOf(id) = "running")
         => /\ lastOp'.ret
            /\ lastOp'.sent = {<<id, signal>>}]_varsJobs

\* C12: a successful killJob leaves the job not Completed (the kill does not
\* assert the completion), and the exit or error notification processed
\* after the kill makes the job Completed.
C12_KillNotCompleted ==
  /\ (lastOp.op = "kill" /\ lastOp.ret)
       => /\ jobObj[lastOp.id].status # "completed"
          /\ proc[lastOp.id].settled \notin {"resolved", "rejected"}
  /\ (lastOp.op \in {"exit", "error"} /\ lastOp.afterKill)
       => jobObj[lastOp.id].status = "completed"

\* the exit notification of a job was processed directly after a successful
\* killJob of that job
C12_Witness ==
  /\ lastOp.op = "exit"
  /\ lastOp.afterKill
  /\ lastOp.pre = "stopped"
  /\ jobObj[lastOp.id].status = "completed"

\* C13: the current-foreground reference designates at most one job, and it
\* is empty after the foreground job exits, after suspendJob succeeds on the
\* foreground job, and after the job is resumed to the background.
C13_ForegroundCleared ==
  /\ currentForegroundJob \in {NoJob} \cup DOMAIN jobObj
  /\ (lastOp.op \in {"exit", "error"} /\ ~jobObj[lastOp.id].background)
       => currentForegroundJob = NoJob
  /\ (lastOp.op = "suspend" /\ lastOp.ret) => currentForegroundJob = NoJob
  /\ (lastOp.op = "resume" /\ lastOp.ret /\ lastOp.bg)
       => currentForegroundJob = NoJob

\* the part of it about the exit of a job started by runForeground
ForegroundClearedOnExit ==
  /\ currentForegroundJob \in {NoJob} \cup DOMAIN jobObj
  /\ (lastOp.op \in {"exit", "error"} /\ ~jobObj[lastOp.id].background)
       => currentForegroundJob = NoJob

\* C14: runForeground registers a new Running job that is not a background
\* job and installs it as the current foreground job; its result is
\* delivered only once the exit notification was processed, and then the
\* job is Completed, has an end time and is not the current foreground job.
C14_RunForeground ==
  /\ lastOp.op = "runForeground"
       => /\ lastOp.id \in jobs
          /\ jobObj[lastOp.id] = [status |-> "running", endTime |-> FALSE,
                                  background |-> FALSE]
          /\ currentForegroundJob = lastOp.id
          /\ proc[lastOp.id].settled = "pending"
  /\ \A j \in DOMAIN jobObj :
       proc[j].settled = "resolved"
         => /\ ~jobObj[j].background
            /\ ~proc[j].exitPending
            /\ jobObj[j].status = "completed"
            /\ jobObj[j].endTime
            /\ currentForegroundJob # j

\* the exit of a foreground job was processed and delivered its result
\* while another job was in the table
C14_Witness ==
  /\ lastOp.op = "exit"
  /\ proc[lastOp.id].settled = "resolved"
  /\ lastOp.pre = "running"
  /\ Cardinality(jobs) > 1

\* a step of runBackground
C15_Spawn ==
  (lastOp'.op = "runBackground" /\ nextJobId' # nextJobId)
    => /\ jobs' = jobs \cup {nextJobId}
       /\ nextJobId \notin jobs
       /\ jobObj'[nextJobId] = [status |-> "running", endTime |-> FALSE,
                                background |-> TRUE]
       /\ proc'[nextJobId].settled = "returned"
       /\ proc'[nextJobId].exitPending \/ proc'[nextJobId].errPending
       /\ currentForegroundJob' = currentForegroundJob
       /\ \A k \in DOMAIN jobObj : jobObj'[k] = jobObj[k] /\ proc'[k] = proc[k]

\* a background job becomes Completed only in its own notification
C15_Completion ==
  \A j \in DOMAIN jobObj :
    (jobObj[j].background /\ jobObj[j].status # "completed"
       /\ jobObj'[j].status = "completed")
      => /\ lastOp'.op \in {"exit", "error"}
         /\ lastOp'.id = j
         /\ jobObj'[j].endTime

\* C15: runBackground registers a new Running job with background true and
\* returns before any notification of its process; it changes neither the
\* current-foreground reference nor any other job, and the job becomes
\* Completed, with an end time, only when its notification is processed.
C15_RunBackground == [][C15_Spawn /\ C15_Completion]_varsJobs

\* runBackground returned while a foreground job was installed
C15_Witness ==
  /\ lastOp.op = "runBackground"
  /\ currentForegroundJob # NoJob
  /\ currentForegroundJob # lastOp.id
  /\ jobObj[lastOp.id].status = "running"

\* what interruptForegroundJob returns and sends, by the guard G
InterruptReturns(G) ==
  lastOp.op = "interrupt"
    => IF G
         THEN /\ lastOp.ret
              /\ lastOp.sent = {<<currentForegroundJob, "SIGINT">>}
         ELSE /\ ~lastOp.ret
              /\ lastOp.sent = {}

C16_Frame ==
  lastOp'.op = "interrupt"
    => /\ jobObj' = jobObj
       /\ jobs' = jobs
       /\ proc' = proc
       /\ currentForegroundJob' = currentForegroundJob

\* C16 (as stated): interruptForegroundJob sends SIGINT to the current
\* foreground job and returns true whenever one is set, and returns false
\* and sends nothing when none is set.
C16_InterruptWheneverSet ==
  InterruptReturns(currentForegroundJob # NoJob)

\* C16: interruptForegroundJob sends SIGINT to the current foreground job,
\* and to no other job, when that job is Running; when no foreground job is
\* set, or the one set is not Running, it returns false and sends nothing;
\* in every case it changes no job and not the job table.
C16_InterruptForeground ==
  /\ []InterruptReturns(currentForegroundJob # NoJob
                         /\ jobObj[currentForegroundJob].status = "running")
  /\ [][C16_Frame]_varsJobs

\* the foreground job was interrupted while another job was running
C16_Witness ==
  /\ lastOp.op = "interrupt"
  /\ lastOp.ret
  /\ \E j \in jobs : j # currentForegroundJob /\ jobObj[j].status = "running"

C17_Step ==
  /\ \A id \in jobs :
       id \notin jobs'
         => lastOp'.op = "cleanup" /\ jobObj[id].status = "completed"
  /\ lastOp'.op = "cleanup"
       => /\ jobs' = {id \in jobs : jobObj[id].status # "completed"}
          /\ jobObj' = jobObj

\* C17: a job leaves the job table only in cleanupCompletedJobs, never in an
\* exit, kill, suspend or resume; cleanupCompletedJobs removes exactly the
\* Completed jobs and keeps every Running and Stopped job.
C17_RemovedOnlyByCleanup == [][C17_Step]_varsJobs

\* cleanup removed a Completed job and kept a Stopped one
C17_Witness ==
  /\ lastOp.op = "cleanup"
  /\ \E j \in DOMAIN jobObj : j \notin jobs /\ jobObj[j].status = "completed"
  /\ \E j \in jobs : jobObj[j].status = "stopped"

\* the operation performed last created a job
JustCreated == lastOp.op \in {"runBackground", "runForeground"}

\* C33: job ids are strictly increasing and never reused: every job ever
\* created, removed or not, has its own id, the id of a new job is greater
\* than every id assigned before it, and so is the next id to assign.
C33_IdsIncrease ==
  /\ Len(jobObj) = nextJobId - 1
  /\ jobs \subseteq 1..(nextJobId - 1)
  /\ JustCreated =>
       /\ lastOp.id = nextJobId - 1
       /\ lastOp.id \in jobs
       /\ \A id \in jobs \ {lastOp.id} : id < lastOp.id

\* a job has been created after an earlier job was removed from the table
C33_Witness ==
  /\ JustCreated
  /\ lastOp.id > 1
  /\ \E id \in 1..(lastOp.id - 1) : id \notin jobs

\* a step that is the exit or error notification of job j
NotificationOf(j) ==
  /\ proc' # proc
  /\ lastOp'.op \in {"exit", "error"}
  /\ lastOp'.id = j

\* C35: when a job that is not the current foreground job exits or
\* errors, the foreground reference is unchanged, overlapping foreground
\* runs included.
C35_Step ==
  \A j \in 1..MaxJobs :
    NotificationOf(j) /\ currentForegroundJob # j =>
      currentForegroundJob' = currentForegroundJob

C35_OtherJobKeepsForeground == [][C35_Step]_varsJobs

\* the notifications of jobs started by runBackground leave the reference
\* alone
BackgroundJobKeepsForeground ==
  [][\A j \in 1..MaxJobs :
       NotificationOf(j) /\ jobObj[j].background =>
         currentForegroundJob' = currentForegroundJob]_varsJobs

\* C36: the foreground reference is empty or designates a job of the table
\* whose status is not Completed.
C36_ForegroundIsLive ==
  \/ currentForegroundJob = NoJob
  \/ /\ currentForegroundJob \in jobs
     /\ jobObj[currentForegroundJob].status # "completed"

\* the reference left by runForeground alone is empty or designates a job
\* that is not Completed, as long as foreground runs do not overlap
ForegroundRunIsLive ==
  /\ currentForegroundJob # NoJob
  /\ ~jobObj[currentForegroundJob].background
  /\ \A id \in DOMAIN jobObj : jobObj[id].background \/ id = currentForegroundJob
  => jobObj[currentForegroundJob].status # "completed"

\* C37: a job has an end time exactly when its status is Completed.
C37_EndTimeIffCompleted ==
  \A id \in DOMAIN jobObj :
    jobObj[id].endTime <=> jobObj[id].status = "completed"

\* a Completed job always has an end time
CompletedHasEndTime ==
  \A id \in DOMAIN jobObj :
    jobObj[id].status = "completed" => jobObj[id].endTime

\* C38: once kill has returned true for a job, no later resume of that
\* job returns true (stated for the resume that follows the kill).
C38_Step ==
  \A id \in CallerIds :
    JustKilled(id) =>
      ~(lastOp'.op = "resume" /\ lastOp'.id = id /\ lastOp'.ret)

C38_NoResumeAfterKill == [][C38_Step]_varsJobs

\* ------------------------------------------------------------------------
\* PipelineManager.executeCommandChain
\* ------------------------------------------------------------------------

\* texts are sequences of characters
NL == <<"\n">>
Empty == <<>>

\* ChainOperator; NoOperator is `undefined` (the last link of "a ; b")
ChainOperators == {"&&", "||", ";"}
NoOperator == "none"

\* the chains parseCommandChain produces: every link but the last carries
\* the operator that followed it, the last one may carry none
ChainsOfLength(n) ==
  {c \in [1..n -> [operator : ChainOperators \cup {NoOperator}]] :
     \A k \in 1..(n - 1) : c[k].operator \in ChainOperators}

ChainInputs == UNION {ChainsOfLength(n) : n \in 0..MaxLinks}

CommandResult(out, err, code) ==
  [stdout |-> out, stderr |-> err, exitCode |-> code]

\* what executePipeline resolves to for a link: texts are trimmed, so an
\* output is empty or starts and ends with a visible character
ResultSamples ==
  {CommandResult(<<"a">>, Empty, 0),
   CommandResult(Empty, Empty, 0),
   CommandResult(Empty, <<"e">>, 1),
   CommandResult(<<"b">>, <<"e">>, 2),
   CommandResult(Empty, Empty, 1)}

NoResult == CommandResult(Empty, Empty, 0)

\* the locals of executeCommandChain(c, options) at position pc
ChainAt(c, pc) ==
  /\ chains = c
  /\ chainI = 1
  /\ lastResult = CommandResult(Empty, Empty, 0)
  /\ combinedStdout = Empty
  /\ combinedStderr = Empty
  /\ chainPc = pc
  /\ chainReturn = NoResult
  /\ linkLog = <<>>

InitChain == \E c \in ChainInputs : ChainAt(c, "loop")

\* no chain is being evaluated
IdleChain == ChainAt(<<>>, "idle")

\* `shouldExecute` of iteration k (lines 285-298)
shouldExecute(k) ==
  IF k > 1
    THEN IF chains[k - 1].operator = "&&" THEN lastResult.exitCode = 0
         ELSE IF chains[k - 1].operator = "||" THEN lastResult.exitCode # 0
         ELSE TRUE
    ELSE TRUE

\* the accumulation without its `if (out)` test
CombineAlways(combined, out) ==
  combined \o (IF combined # Empty THEN NL ELSE Empty) \o out

\* if (out) combined += (combined ? '\n' : '') + out  (lines 305-310)
Combine(combined, out) ==
  IF out # Empty
    THEN combined \o (IF combined # Empty THEN NL ELSE Empty) \o out
    ELSE combined

\* lastResult after a skipped iteration k (lines 314-322)
ResultAfterSkip(k) ==
  IF chains[k - 1].operator = "&&"
    THEN CommandResult(Empty, Empty, 1)
    ELSE lastResult

\* iteration k runs its link: parsePipeline succeeds and executePipeline
\* resolves to r
ChainRunLink(r) ==
  /\ chainPc = "loop"
  /\ chainI <= Len(chains)
  /\ shouldExecute(chainI)
  /\ lastResult' = r
  /\ combinedStdout' = Combine(combinedStdout, r.stdout)
  /\ combinedStderr' = Combine(combinedStderr, r.stderr)
  /\ linkLog' = Append(linkLog, [ran |-> TRUE, threw |-> FALSE, result |-> r])
  /\ chainI' = chainI + 1
  /\ UNCHANGED <<chains, chainPc, chainReturn>>
  /\ UNCHANGED <<varsJobs, varsPipe, varsFile, varsParse>>

\* iteration k runs its link and parsePipeline throws (parseCommand, line
\* 412): nothing catches it, the promise of executeCommandChain is rejected
ChainThrowLink ==
  /\ chainPc = "loop"
  /\ chainI <= Len(chains)
  /\ shouldExecute(chainI)
  /\ chainPc' = "thrown"
  /\ linkLog' = Append(linkLog, [ran |-> TRUE, threw |-> TRUE,
                                 result |-> NoResult])
  /\ UNCHANGED <<chains, chainI, lastResult, combinedStdout, combinedStderr,
                 chainReturn>>
  /\ UNCHANGED <<varsJobs, varsPipe, varsFile, varsParse>>

\* iteration k skips its link
ChainSkipLink ==
  /\ chainPc = "loop"
  /\ chainI <= Len(chains)
  /\ ~shouldExecute(chainI)
  /\ lastResult' = ResultAfterSkip(chainI)
  /\ linkLog' = Append(linkLog, [ran |-> FALSE, threw |-> FALSE,
                                 result |-> NoResult])
  /\ chainI' = chainI + 1
  /\ UNCHANGED <<chains, combinedStdout, combinedStderr, chainPc, chainReturn>>
  /\ UNCHANGED <<varsJobs, varsPipe, varsFile, varsParse>>

\* the return statement (lines 325-329)
ChainReturn ==
  /\ chainPc = "loop"
  /\ chainI > Len(chains)
  /\ chainReturn' = CommandResult(combinedStdout, combinedStderr,
                                  lastResult.exitCode)
  /\ chainPc' = "returned"
  /\ UNCHANGED <<chains, chainI, lastResult, combinedStdout, combinedStderr,
                 linkLog>>
  /\ UNCHANGED <<varsJobs, varsPipe, varsFile, varsParse>>

NextChain ==
  \/ \E r \in ResultSamples : ChainRunLink(r)
  \/ ChainThrowLink
  \/ ChainSkipLink
  \/ ChainReturn


\* ------------------------------------------------------------------------
\* Chain evaluator: properties
\* ------------------------------------------------------------------------
ChainEnded == chainPc \in {"returned", "thrown"}

\* link k was run by the evaluation
LinkRan(k) == k <= Len(linkLog) /\ linkLog[k].ran

\* the carried exit code after link k, as the claim defines it
RECURSIVE Carried(_)
Carried(k) ==
  IF linkLog[k].ran THEN linkLog[k].result.exitCode
  ELSE IF chains[k - 1].operator = "&&" THEN 1
  ELSE Carried(k - 1)

\* the rule of the claim for link k + 1, from link k's operator; a link
\* whose parse threw has no exit code to carry
RuleSaysRun(k) ==
  \/ chains[k].operator \in {";", NoOperator}
  \/ /\ k <= Len(linkLog)
     /\ ~linkLog[k].threw
     /\ \/ chains[k].operator = "&&" /\ Carried(k) = 0
        \/ chains[k].operator = "||" /\ Carried(k) # 0

\* C1: link 0 always runs, and link i+1 runs if and only if link i's
\* operator is ';' or absent, or '&&' with carried exit code 0, or '||' with
\* a non-zero carried exit code.
C1_ChainRule ==
  ChainEnded =>
    /\ Len(chains) > 0 => LinkRan(1)
    /\ \A k \in 1..(Len(chains) - 1) : LinkRan(k + 1) <=> RuleSaysRun(k)

\* the rule on the evaluations that return a result
ChainRuleWhenReturned ==
  chainPc = "returned" =>
    /\ Len(chains) > 0 => LinkRan(1)
    /\ \A k \in 1..(Len(chains) - 1) : LinkRan(k + 1) <=> RuleSaysRun(k)

\* C23: a redirection operator with no following token makes the parse of
\* that pipeline fail, and this aborts that pipeline only: the evaluation of
\* the chain goes on with the other links and returns the output of the
\* links that ran.
C23_MalformedAbortsLinkOnly ==
  \A k \in 1..Len(linkLog) :
    linkLog[k].threw =>
      /\ chainPc # "thrown"
      /\ chainPc = "returned" => chainReturn.stdout = combinedStdout

RanLinks == {k \in 1..Len(linkLog) : linkLog[k].ran}

LastRan == CHOOSE k \in RanLinks : \A m \in RanLinks : m <= k

\* C2: the exit code returned by the chain evaluator is the exit code of the
\* last link that ran.
C2_ExitOfLastRan ==
  (chainPc = "returned" /\ RanLinks # {})
    => chainReturn.exitCode = linkLog[LastRan].result.exitCode

\* the newline-joined concatenation of the non-empty texts of a list
RECURSIVE JoinNonEmpty(_)
JoinNonEmpty(texts) ==
  IF texts = <<>> THEN Empty
  ELSE LET rest == JoinNonEmpty(Tail(texts))
       IN  IF Head(texts) = Empty THEN rest
           ELSE IF rest = Empty THEN Head(texts)
           ELSE Head(texts) \o NL \o rest

RECURSIVE RanTexts(_, _)
RanTexts(k, field) ==
  IF k > Len(linkLog) THEN <<>>
  ELSE IF linkLog[k].ran
    THEN <<IF field = "stdout" THEN linkLog[k].result.stdout
           ELSE linkLog[k].result.stderr>> \o RanTexts(k + 1, field)
    ELSE RanTexts(k + 1, field)

\* C3: the combined stdout, and the combined stderr, returned by the chain
\* evaluator is the newline-joined concatenation, in chain order, of the
\* non-empty outputs of exactly the links that ran.
C3_CombinedOutput ==
  chainPc = "returned" =>
    /\ chainReturn.stdout = JoinNonEmpty(RanTexts(1, "stdout"))
    /\ chainReturn.stderr = JoinNonEmpty(RanTexts(1, "stderr"))

\* a chain returned after a link with output, a skipped link, a link
\* without output and another link with output
C3_Witness ==
  /\ chainPc = "returned"
  /\ \E k \in 1..Len(linkLog) : ~linkLog[k].ran
  /\ \E k \in RanLinks : linkLog[k].result.stdout = Empty
  /\ \E k, m \in RanLinks :
       /\ k < m
       /\ linkLog[k].result.stdout # Empty
       /\ linkLog[m].result.stdout # Empty

\* ------------------------------------------------------------------------
\* PipelineManager.executePipeline
\* ------------------------------------------------------------------------

\* `code` of a 'close' event is null when a signal terminated the process
NullCode == -1
\* `code` of the 'close' event that follows a failed spawn: the errno
SpawnErrno == -2

\* exit codes of the processes and script steps of the model
ExitCodes == {0, 1}

\* programs found on PATH; spawning any other emits 'error' (ENOENT)
Installed == {"cat"}
\* files that fs.openSync(target, 'r') can open
Readable == {"f"}

Redir(type, target) == [type |-> type, target |-> target]
Stage(command, redirections) ==
  [command |-> command, redirections |-> redirections]

\* the PipelineCommand values of the model
StageSamples ==
  {Stage("cat", <<>>),
   Stage("nope", <<>>),
   Stage("js", <<>>),
   Stage("cat", <<Redir("<", "f")>>),
   Stage("cat", <<Redir("<", "m")>>),
   Stage("js", <<Redir("<", "m")>>),
   Stage("cat", <<Redir("<", "f"), Redir("<", "m")>>)}

PipelineInputs == UNION {[1..n -> StageSamples] : n \in 0..MaxStages}

\* isJSCommand(command) || isNPMCommand(command)
IsScript(command) == command = "js"

\* hasJSCommands(commands)
hasJSCommands(cmds) == \E k \in 1..Len(cmds) : IsScript(cmds[k].command)

\* the stderr of a result: which message, and the name it carries
\*   "no-commands"    No commands in pipeline
\*   "cannot-open"    Cannot open '<target>' for input: ...
\*   "failed-exec"    Failed to execute '<command>': ...
\*   "pipeline-error" Pipeline error: spawn <command> ENOENT
\*   "captured"       what the processes wrote to stderr
\*   "script"         what the script step returned
PResult(kind, name, code) ==
  [stderr |-> [kind |-> kind, name |-> name], exitCode |-> code]

NoPResult == PResult("none", "", 0)

\* what a process or a script step writes to stdout
RawOutputs == {Empty, <<"o", "\n">>}
ScriptOutputs == {Empty, <<"o">>}

Whitespace == {" ", "\n"}

\* String.prototype.trim
RECURSIVE Trim(_)
Trim(t) ==
  IF t = Empty THEN t
  ELSE IF Head(t) \in Whitespace THEN Trim(Tail(t))
  ELSE IF t[Len(t)] \in Whitespace THEN Trim(SubSeq(t, 1, Len(t) - 1))
  ELSE t

\* `code || 0`
CodeOrZero(code) == IF code = NullCode THEN 0 ELSE code

\* what the stdin or the stdout of a process is bound to
\*   "inherit"  the terminal of the shell (stdio 'inherit')
\*   "file"     the file `target` (an opened fd, or a write stream piped to)
\*   "pipe"     the neighbouring process of the pipeline
\*   "text"     stdin: the string handed to executeCommandWithInput
\*   "capture"  stdout: the 'data' listener that collects the result's stdout
Binding(kind, target) == [kind |-> kind, target |-> target]
Inherit == Binding("inherit", "")
Piped == Binding("pipe", "")
InputText == Binding("text", "")
Captured == Binding("capture", "")
File(target) == Binding("file", target)

\* spawn(command, ...): the ChildProcess object
Spawned(command) ==
  [prog |-> command,
   os |-> IF command \in Installed THEN "running" ELSE "nospawn",
   code |-> NullCode,
   errPending |-> command \notin Installed,
   closedAt |-> 0,
   killed |-> FALSE,
   signalled |-> FALSE,
   stage |-> 0,
   stdin |-> Inherit,
   stdout |-> Captured]

\* the process spawned for stage k with its stdin and stdout bound
SpawnedAs(command, k, input, output) ==
  [Spawned(command) EXCEPT !.stage = k, !.stdin = input, !.stdout = output]

\* the state of executePipeline({commands: cmds, background: bg}, options)
\* at position pc
PipeAt(cmds, bg, pc) ==
  /\ commands = cmds
  /\ pipelineBackground = bg
  /\ currentInput = Empty
  /\ stageLog = <<>>
  /\ orphans = 0
  /\ pipeMode = "none"
  /\ pipePc = pc
  /\ spawnI = 1
  /\ processes = <<>>
  /\ completedProcesses = 0
  /\ finalExitCode = 0
  /\ finalResult = NoPResult
  /\ resolved = FALSE
  /\ pipeResult = NoPResult

\* the pipelines of the model that end with ' &': those without redirection
BackgroundInputs ==
  {cmds \in PipelineInputs :
     \A k \in 1..Len(cmds) : cmds[k].redirections = <<>>}

InitPipe ==
  \/ \E cmds \in PipelineInputs : PipeAt(cmds, FALSE, "start")
  \/ \E cmds \in BackgroundInputs : PipeAt(cmds, TRUE, "start")

\* no pipeline is being executed
IdlePipe == PipeAt(<<>>, FALSE, "idle")

\* the positions of the '<' redirections of a command whose target cannot
\* be opened
BadInputs(cmd) ==
  {k \in 1..Len(cmd.redirections) :
     /\ cmd.redirections[k].type = "<"
     /\ cmd.redirections[k].target \notin Readable}

Min(S) == CHOOSE x \in S : \A y \in S : x <= y

\* executeCommandWithRedirections, lines 518-538: the loop opens every '<'
\* target in order and returns at the first that cannot be opened
InputFailure(cmd) ==
  PResult("cannot-open", cmd.redirections[Min(BadInputs(cmd))].target, 1)

\* cmd.redirections.find(r => r.type === '<'), 0 when there is none
FindInput(cmd) ==
  LET S == {k \in 1..Len(cmd.redirections) : cmd.redirections[k].type = "<"}
  IN  IF S = {} THEN 0 ELSE Min(S)

Max(S) == CHOOSE x \in S : \A y \in S : x >= y

\* a search that takes the last output redirection of the list
FindOutputLast(cmd) ==
  LET S == {k \in 1..Len(cmd.redirections) :
              cmd.redirections[k].type \in {">", ">>"}}
  IN  IF S = {} THEN 0 ELSE Max(S)

\* cmd.redirections.find(r => r.type === '>' || r.type === '>>'), 0 when
\* there is none
FindOutput(cmd) ==
  LET S == {k \in 1..Len(cmd.redirections) :
              cmd.redirections[k].type \in {">", ">>"}}
  IN  IF S = {} THEN 0 ELSE Min(S)

\* files that fs.createWriteStream(target) can open
Writable == {"w", "v"}
\* what the file "w" holds before the pipeline runs
FileContents == {Empty, <<"p">>}

\* no write stream; the file holds c
NoWriter(c) ==
  [target |-> "", append |-> FALSE, state |-> "none",
   before |-> c, content |-> c, written |-> Empty]

FileAt(c) ==
  /\ outFile = NoWriter(c)
  /\ unhandled = FALSE

IdleFile == FileAt(Empty)

\* fs.createWriteStream(target, {flags: append ? 'a' : 'w'}): the stream
\* exists, its file is not opened yet (lines 555-557, 803-805)
createWriteStream(r) ==
  [outFile EXCEPT !.target = r.target, !.append = (r.type = ">>"),
                  !.state = "pending"]

\* the write stream after the spawn of cmd, whose output redirection is
\* looked at or not
OutputOpened(cmd, looked) ==
  IF looked /\ FindOutput(cmd) # 0
    THEN createWriteStream(cmd.redirections[FindOutput(cmd)])
    ELSE outFile

\* stdio[0] of executeCommandWithRedirections (lines 516-538): every '<'
\* target is opened in turn and the last one stays
SingleStdin(cmd) ==
  LET S == {k \in 1..Len(cmd.redirections) : cmd.redirections[k].type = "<"}
  IN  IF S = {} THEN Inherit ELSE File(cmd.redirections[Max(S)].target)

\* the stdout of executeCommandWithRedirections (lines 551-569)
SingleStdout(cmd) ==
  IF FindOutput(cmd) # 0
    THEN File(cmd.redirections[FindOutput(cmd)].target)
    ELSE Captured

\* stdio[0] of process i of executePipeChain (lines 760-783)
ChainStdin(cmds, i) ==
  IF i = 1
    THEN IF FindInput(cmds[i]) # 0
           THEN File(cmds[i].redirections[FindInput(cmds[i])].target)
           ELSE Inherit
    ELSE Piped

\* the stdout of process i of executePipeChain (lines 794-818)
ChainStdout(cmds, i) ==
  IF i < Len(cmds) THEN Piped
  ELSE IF FindOutput(cmds[i]) # 0
    THEN File(cmds[i].redirections[FindOutput(cmds[i])].target)
    ELSE Captured

\* executePipeline on no command
PipeStartEmpty ==
  /\ pipePc = "start"
  /\ Len(commands) = 0
  /\ pipeMode' = "empty"
  /\ pipePc' = "returned"
  /\ resolved' = TRUE
  /\ pipeResult' = PResult("no-commands", "", 1)
  /\ UNCHANGED <<commands, pipelineBackground, orphans, currentInput,
                 stageLog, spawnI, processes, completedProcesses,
                 finalExitCode, finalResult>>
  /\ UNCHANGED <<varsJobs, varsChain, varsFile, varsParse>>

\* executePipeline on one command: executeCommandWithRedirections up to
\* the registration of its listeners
PipeStartSingle ==
  /\ pipePc = "start"
  /\ Len(commands) = 1
  /\ pipeMode' = "single"
  /\ IF BadInputs(commands[1]) # {}
       THEN /\ pipePc' = "returned"
            /\ resolved' = TRUE
            /\ pipeResult' = InputFailure(commands[1])
            /\ UNCHANGED <<processes, outFile>>
       ELSE /\ pipePc' = "child"
            /\ processes' = <<SpawnedAs(commands[1].command, 1,
                                        SingleStdin(commands[1]),
                                        SingleStdout(commands[1]))>>
            /\ outFile' = OutputOpened(commands[1], TRUE)
            /\ UNCHANGED <<resolved, pipeResult>>
  /\ UNCHANGED <<commands, pipelineBackground, orphans, currentInput,
                 stageLog, spawnI, completedProcesses, finalExitCode,
                 finalResult, unhandled>>
  /\ UNCHANGED <<varsJobs, varsChain, varsParse>>

\* executePipeline on several commands, none a script step: executePipeChain
PipeStartChain ==
  /\ pipePc = "start"
  /\ Len(commands) > 1
  /\ ~hasJSCommands(commands)
  /\ pipeMode' = "chain"
  /\ pipePc' = "spawning"
  /\ UNCHANGED <<commands, pipelineBackground, orphans, currentInput,
                 stageLog, spawnI, processes, completedProcesses,
                 finalExitCode, finalResult, resolved, pipeResult>>
  /\ UNCHANGED <<varsJobs, varsChain, varsFile, varsParse>>

\* executePipeline on several commands, some a script step:
\* executeMixedPipeline
PipeStartMixed ==
  /\ pipePc = "start"
  /\ Len(commands) > 1
  /\ hasJSCommands(commands)
  /\ pipeMode' = "mixed"
  /\ pipePc' = "mixed"
  /\ UNCHANGED <<commands, pipelineBackground, orphans, currentInput,
                 stageLog, spawnI, processes, completedProcesses,
                 finalExitCode, finalResult, resolved, pipeResult>>
  /\ UNCHANGED <<varsJobs, varsChain, varsFile, varsParse>>

\* an OS process ends: by itself with an exit code, or by a signal
OsExit(i, code) ==
  /\ i \in 1..Len(processes)
  /\ processes[i].os = "running"
  /\ processes' = [processes EXCEPT ![i].os = "exited", ![i].code = code]
  /\ UNCHANGED <<commands, pipelineBackground, orphans, currentInput,
                 stageLog, pipeMode, pipePc, spawnI, completedProcesses,
                 finalExitCode, finalResult, resolved, pipeResult>>
  /\ UNCHANGED <<varsJobs, varsChain, varsFile, varsParse>>

\* one iteration of the spawn loop of executePipeChain (lines 752-826)
PipeChainSpawn ==
  /\ pipePc = "spawning"
  /\ spawnI <= Len(commands)
  /\ LET cmd == commands[spawnI]
         inputRedirection == FindInput(cmd)
     IN  IF /\ spawnI = 1
            /\ inputRedirection # 0
            /\ cmd.redirections[inputRedirection].target \notin Readable
           THEN /\ resolved' = TRUE
                /\ pipeResult' =
                     PResult("cannot-open",
                             cmd.redirections[inputRedirection].target, 1)
                /\ pipePc' = "returned"
                /\ UNCHANGED <<processes, spawnI, outFile>>
           ELSE /\ processes' =
                     Append(processes,
                            SpawnedAs(cmd.command, spawnI,
                                      ChainStdin(commands, spawnI),
                                      ChainStdout(commands, spawnI)))
                /\ outFile' = OutputOpened(cmd, spawnI = Len(commands))
                /\ spawnI' = spawnI + 1
                /\ UNCHANGED <<resolved, pipeResult, pipePc>>
  /\ UNCHANGED <<commands, pipelineBackground, orphans, currentInput,
                 stageLog, pipeMode, completedProcesses, finalExitCode,
                 finalResult, unhandled>>
  /\ UNCHANGED <<varsJobs, varsChain, varsParse>>

\* the end of the synchronous block of executePipeChain: the 'close' and
\* 'error' listeners are attached (lines 834-867) and control returns to
\* the event loop
PipeChainListen ==
  /\ pipePc = "spawning"
  /\ spawnI > Len(commands)
  /\ pipePc' = "waiting"
  /\ UNCHANGED <<commands, pipelineBackground, orphans, currentInput,
                 stageLog, pipeMode, spawnI, processes, completedProcesses,
                 finalExitCode, finalResult, resolved, pipeResult>>
  /\ UNCHANGED <<varsJobs, varsChain, varsFile, varsParse>>

\* listeners that could run between two spawns (a loop that awaits)
HandlersMayRunWhileSpawning == pipePc \in {"spawning", "waiting"}

\* the event loop runs the listeners of executePipeChain only once its
\* synchronous block has ended
HandlersMayRun == pipePc = "waiting"

\* the 'error' events of failed spawns are emitted from process.nextTick,
\* in spawn order and before any 'close' event
NextError ==
  LET S == {k \in 1..Len(processes) : processes[k].errPending}
  IN  IF S = {} THEN 0 ELSE Min(S)

\* p.kill() of the error listener: SIGTERM to a process that JS has not
\* yet seen end; it reaches the process only if it still runs
Killed(p) ==
  IF p.os # "nospawn" /\ p.closedAt = 0 /\ ~p.killed
    THEN [p EXCEPT !.killed = TRUE, !.signalled = (p.os = "running")]
    ELSE p

\* proc.on('error') of executePipeChain (lines 853-866)
PipeChainError(i) ==
  /\ pipeMode = "chain"
  /\ HandlersMayRun
  /\ i = NextError
  /\ i # 0
  /\ processes' = [k \in 1..Len(processes) |->
                     IF k = i
                       THEN [processes[k] EXCEPT !.errPending = FALSE]
                       ELSE Killed(processes[k])]
  /\ resolved' = TRUE
  /\ pipeResult' = IF resolved THEN pipeResult
                   ELSE PResult("pipeline-error", processes[i].prog, 1)
  /\ UNCHANGED <<commands, pipelineBackground, orphans, currentInput,
                 stageLog, pipeMode, pipePc, spawnI, completedProcesses,
                 finalExitCode, finalResult>>
  /\ UNCHANGED <<varsJobs, varsChain, varsFile, varsParse>>

\* a process whose 'close' event can be delivered, and the code it carries
CanClose(p) ==
  /\ p.closedAt = 0
  /\ \/ p.os = "exited"
     \/ p.os = "nospawn" /\ ~p.errPending

CloseCode(p) == IF p.os = "nospawn" THEN SpawnErrno ELSE p.code

\* finalExitCode assigned by the 'close' of every process
FinalCodeOfAnyStage(index, code) == CodeOrZero(code)

\* finalExitCode after the 'close' of process `index` with `code`
\* (lines 838-841)
FinalCode(index, code) ==
  IF index = Len(processes) THEN CodeOrZero(code) ELSE finalExitCode

\* proc.on('close') of executePipeChain (lines 835-851)
PipeChainClose(i) ==
  /\ pipeMode = "chain"
  /\ HandlersMayRun
  /\ NextError = 0
  /\ i \in 1..Len(processes)
  /\ CanClose(processes[i])
  /\ completedProcesses' = completedProcesses + 1
  /\ processes' = [processes EXCEPT ![i].closedAt = completedProcesses + 1]
  /\ finalExitCode' = FinalCode(i, CloseCode(processes[i]))
  /\ IF completedProcesses + 1 = Len(processes)
       THEN /\ resolved' = TRUE
            /\ pipeResult' = IF resolved THEN pipeResult
                             ELSE PResult("captured", "", finalExitCode')
       ELSE UNCHANGED <<resolved, pipeResult>>
  /\ UNCHANGED <<commands, pipelineBackground, orphans, currentInput,
                 stageLog, pipeMode, pipePc, spawnI, finalResult>>
  /\ UNCHANGED <<varsJobs, varsChain, varsFile, varsParse>>

\* an executeMixedPipeline that goes on after a failed stage
MixedContinueAlways(r, out) ==
  /\ finalResult' = r
  /\ currentInput' = out
  /\ spawnI' = spawnI + 1
  /\ pipePc' = "mixed"
  /\ UNCHANGED <<resolved, pipeResult>>

\* executeMixedPipeline goes on after the stage spawnI settled with r and
\* the stdout `out` (lines 650-654, 665-669)
MixedContinue(r, out) ==
  /\ finalResult' = r
  /\ IF r.exitCode # 0
       THEN /\ resolved' = TRUE
            /\ pipeResult' = r
            /\ pipePc' = "returned"
            /\ UNCHANGED <<spawnI, currentInput>>
       ELSE /\ spawnI' = spawnI + 1
            /\ currentInput' = out
            /\ pipePc' = "mixed"
            /\ UNCHANGED <<resolved, pipeResult>>

\* a stage of executeMixedPipeline as it starts: the input it is given and
\* how (`fed`): "argument" (pipeInput of a script step), "stdin" (written
\* to stdin, then stdin ended), "open" (nothing written, stdin left open),
\* "none" (first stage, a process)
StageStarted(k, input, fed) ==
  [stage |-> k, input |-> input, fed |-> fed, done |-> FALSE,
   stdout |-> Empty, result |-> NoPResult]

\* the stage started last has settled with r and the stdout `out`
StageDone(r, out) ==
  [stageLog EXCEPT ![Len(stageLog)].done = TRUE,
                   ![Len(stageLog)].stdout = out,
                   ![Len(stageLog)].result = r]

\* a script stage of executeMixedPipeline: executeJSCommand resolves
MixedScript(code, out) ==
  /\ pipePc = "mixed"
  /\ spawnI <= Len(commands)
  /\ IsScript(commands[spawnI].command)
  /\ stageLog' = Append(stageLog,
                        [StageStarted(spawnI, currentInput, "argument")
                           EXCEPT !.done = TRUE, !.stdout = out,
                                  !.result = PResult("script", "", code)])
  /\ MixedContinue(PResult("script", "", code), out)
  /\ UNCHANGED <<commands, pipelineBackground, orphans,
                 pipeMode, processes,
                 completedProcesses, finalExitCode>>
  /\ UNCHANGED <<varsJobs, varsChain, varsFile, varsParse>>

\* a process stage of executeMixedPipeline: the first stage goes through
\* executeCommandWithRedirections, a later one through
\* executeCommandWithInput (`if (child.stdin && input)` writes and ends)
MixedSpawn ==
  /\ pipePc = "mixed"
  /\ spawnI <= Len(commands)
  /\ ~IsScript(commands[spawnI].command)
  /\ IF spawnI = 1 /\ BadInputs(commands[1]) # {}
       THEN /\ MixedContinue(InputFailure(commands[1]), Empty)
            /\ UNCHANGED <<processes, stageLog, outFile>>
       ELSE /\ processes' =
                 Append(processes,
                        IF spawnI = 1
                          THEN SpawnedAs(commands[1].command, 1,
                                         SingleStdin(commands[1]),
                                         SingleStdout(commands[1]))
                          ELSE SpawnedAs(commands[spawnI].command, spawnI,
                                         InputText, Captured))
            /\ outFile' = OutputOpened(commands[spawnI], spawnI = 1)
            /\ stageLog' =
                 Append(stageLog,
                        StageStarted(spawnI,
                                     IF spawnI = 1 THEN Empty ELSE currentInput,
                                     IF spawnI = 1 THEN "none"
                                     ELSE IF currentInput # Empty THEN "stdin"
                                     ELSE "open"))
            /\ pipePc' = "child"
            /\ UNCHANGED <<spawnI, finalResult, resolved, pipeResult,
                           currentInput>>
  /\ UNCHANGED <<commands, pipelineBackground, orphans,
                 pipeMode, completedProcesses,
                 finalExitCode, unhandled>>
  /\ UNCHANGED <<varsJobs, varsChain, varsParse>>

\* the return at the end of executeMixedPipeline
MixedReturn ==
  /\ pipePc = "mixed"
  /\ spawnI > Len(commands)
  /\ resolved' = TRUE
  /\ pipeResult' = finalResult
  /\ pipePc' = "returned"
  /\ UNCHANGED <<commands, pipelineBackground, orphans, currentInput,
                 stageLog, pipeMode, spawnI, processes, completedProcesses,
                 finalExitCode, finalResult>>
  /\ UNCHANGED <<varsJobs, varsChain, varsFile, varsParse>>

\* the promise of executeCommandWithRedirections / executeCommandWithInput
\* resolves to r with the stdout `out`: executePipeline returns it (one
\* command), or executeMixedPipeline goes on
ChildSettled(r, out) ==
  IF pipeMode = "single"
    THEN /\ resolved' = TRUE
         /\ pipeResult' = r
         /\ pipePc' = "returned"
         /\ UNCHANGED <<spawnI, finalResult, currentInput, stageLog>>
    ELSE /\ stageLog' = StageDone(r, out)
         /\ MixedContinue(r, out)

\* child.on('error') of the child awaited (lines 585-591, 722-728)
ChildError ==
  /\ pipePc = "child"
  /\ processes[Len(processes)].errPending
  /\ processes' = [processes EXCEPT ![Len(processes)].errPending = FALSE]
  /\ ChildSettled(PResult("failed-exec", processes[Len(processes)].prog, 1),
                  Empty)
  /\ UNCHANGED <<commands, pipelineBackground, orphans,
                 pipeMode, completedProcesses,
                 finalExitCode>>
  /\ UNCHANGED <<varsJobs, varsChain, varsFile, varsParse>>

\* child.on('close') of the child awaited (lines 577-583, 714-720), the
\* process having written `raw` to stdout
ChildClose(raw) ==
  /\ pipePc = "child"
  /\ CanClose(processes[Len(processes)])
  /\ processes' = [processes EXCEPT ![Len(processes)].closedAt = 1]
  /\ ChildSettled(PResult("captured", "",
                          CodeOrZero(CloseCode(processes[Len(processes)]))),
                  IF processes[Len(processes)].stdout = Captured
                    THEN Trim(raw) ELSE Empty)
  /\ UNCHANGED <<commands, pipelineBackground, orphans,
                 pipeMode, completedProcesses,
                 finalExitCode>>
  /\ UNCHANGED <<varsJobs, varsChain, varsFile, varsParse>>

\* child.on('close') after child.on('error') already resolved the promise:
\* resolve has no effect
ChildLateClose(i) ==
  /\ pipeMode \in {"single", "mixed"}
  /\ i \in 1..Len(processes)
  /\ pipePc # "child" \/ i # Len(processes)
  /\ CanClose(processes[i])
  /\ processes' = [processes EXCEPT ![i].closedAt = 1]
  /\ UNCHANGED <<commands, pipelineBackground, orphans, currentInput,
                 stageLog, pipeMode, pipePc, spawnI, completedProcesses,
                 finalExitCode, finalResult, resolved, pipeResult>>
  /\ UNCHANGED <<varsJobs, varsChain, varsFile, varsParse>>

NextPipe ==
  \/ PipeStartEmpty
  \/ PipeStartSingle
  \/ PipeStartChain
  \/ PipeStartMixed
  \/ \E i \in 1..MaxStages, code \in ExitCodes \cup {NullCode} : OsExit(i, code)
  \/ PipeChainSpawn
  \/ PipeChainListen
  \/ \E i \in 1..MaxStages : PipeChainError(i)
  \/ \E i \in 1..MaxStages : PipeChainClose(i)
  \/ \E code \in ExitCodes, out \in ScriptOutputs : MixedScript(code, out)
  \/ MixedSpawn
  \/ MixedReturn
  \/ ChildError
  \/ \E raw \in RawOutputs : ChildClose(raw)
  \/ \E i \in 1..MaxStages : ChildLateClose(i)

\* ------------------------------------------------------------------------
\* Pipelines: properties
\* ------------------------------------------------------------------------
LastProcess == processes[Len(processes)]

\* every stage of the pipe chain was spawned, and spawned successfully
AllStagesSpawned ==
  /\ Len(processes) = Len(commands)
  /\ \A k \in 1..Len(processes) : processes[k].os # "nospawn"

\* C4: when every stage of a multi-stage process pipeline spawns, the exit
\* code the pipeline resolves to is the exit code of the last stage (for a
\* last stage that exited with a code), whatever the other stages returned
\* and in whatever order the stages ended.
C4_LastStageExitCode ==
  (pipeMode = "chain" /\ resolved /\ AllStagesSpawned
     /\ LastProcess.code # NullCode)
    => pipeResult.exitCode = LastProcess.code

\* the last stage ended with 0 and was closed first, the first stage ended
\* with 1 and was closed last
C4_Witness ==
  /\ pipeMode = "chain"
  /\ resolved
  /\ AllStagesSpawned
  /\ LastProcess.code = 0
  /\ processes[1].code = 1
  /\ LastProcess.closedAt = 1
  /\ processes[1].closedAt = Len(processes)

\* a listener of the pipe chain has run
SomeListenerRan ==
  \/ completedProcesses > 0
  \/ resolved
  \/ \E k \in 1..Len(processes) :
       \/ processes[k].closedAt # 0
       \/ processes[k].os = "nospawn" /\ ~processes[k].errPending

\* C5: the stages of a multi-stage process pipeline are all spawned before
\* executePipeChain waits for anything: while a stage remains to be
\* spawned no 'close' or 'error' of an earlier stage has been waited for,
\* whether or not that stage has already ended.
C5_SpawnUpFront ==
  (pipeMode = "chain" /\ Len(processes) < Len(commands) /\ processes # <<>>)
    => ~SomeListenerRan

\* every stage of a pipe chain has been spawned and all of them run
C5_Witness ==
  /\ pipeMode = "chain"
  /\ Len(processes) = Len(commands)
  /\ Len(processes) = MaxStages
  /\ \A k \in 1..Len(processes) : processes[k].os = "running"

\* a stage was spawned while an earlier stage had already ended
SpawnedAfterExit ==
  /\ pipeMode = "chain"
  /\ \E k \in 1..Len(processes) :
       /\ k < Len(processes)
       /\ processes[k].os = "exited"
       /\ processes[Len(processes)].os = "running"
       /\ pipePc = "spawning"

FailedStages == {k \in 1..Len(processes) : processes[k].os = "nospawn"}

\* C6: when a stage of a multi-stage process pipeline fails to spawn, the
\* result has a non-zero exit code and a stderr naming the program that
\* could not be spawned, and once the result is returned no process of the
\* pipeline is still running.
C6_SpawnFailureCleanup ==
  (pipeMode = "chain" /\ resolved /\ FailedStages # {})
    => /\ pipeResult.exitCode # 0
       /\ pipeResult.stderr.kind = "pipeline-error"
       /\ \E k \in FailedStages : pipeResult.stderr.name = processes[k].prog
       /\ \A k \in 1..Len(processes) : processes[k].os # "running"

\* what executePipeChain does on a failed spawn: the result names the
\* program, and SIGTERM was sent to every process still running
SpawnFailureResultAndSignals ==
  (pipeMode = "chain" /\ resolved /\ FailedStages # {})
    => /\ pipeResult.exitCode = 1
       /\ pipeResult.stderr.kind = "pipeline-error"
       /\ pipeResult.stderr.name = processes[Min(FailedStages)].prog
       /\ \A k \in 1..Len(processes) :
            processes[k].os = "running" => processes[k].signalled

\* the input redirection of the first stage names a file that cannot be
\* opened: any '<' of a single command (each is opened in turn), the '<'
\* found first on the first stage of several
UnopenableInput ==
  /\ Len(commands) > 0
  /\ IF Len(commands) = 1
       THEN BadInputs(commands[1]) # {}
       ELSE /\ FindInput(commands[1]) # 0
            /\ commands[1].redirections[FindInput(commands[1])].target
                 \notin Readable

FirstInputTarget ==
  IF Len(commands) = 1
    THEN commands[1].redirections[Min(BadInputs(commands[1]))].target
    ELSE commands[1].redirections[FindInput(commands[1])].target

InputFailureReturned ==
  /\ processes = <<>>
  /\ resolved =>
       /\ pipeResult.exitCode = 1
       /\ pipeResult.stderr.kind = "cannot-open"
       /\ pipeResult.stderr.name = FirstInputTarget

\* C7: when the input-redirection target of a single-stage pipeline, or of
\* the first stage of a multi-stage pipeline, cannot be opened, the result
\* is a failure with exit code 1 and a stderr naming the target, and no
\* process of the pipeline is spawned.
C7_InputFailure ==
  UnopenableInput => InputFailureReturned

\* the same when the first stage is an OS process
InputFailureOfProcessStage ==
  (UnopenableInput /\ ~IsScript(commands[1].command)) => InputFailureReturned

\* C19: executing a pipeline whose background flag is true gives control
\* back to the caller without waiting for its processes: the caller is
\* never left waiting for the 'close' or 'error' of a process.
C19_BackgroundReturns ==
  (pipelineBackground /\ pipePc \in {"child", "waiting"}) => resolved

\* the stages of a mixed pipeline run one after the other
MixedSequential ==
  /\ \A k \in 1..Len(stageLog) :
       /\ stageLog[k].stage = k
       /\ k < Len(stageLog)
            => stageLog[k].done /\ stageLog[k].result.exitCode = 0
  /\ Cardinality({k \in 1..Len(processes) : processes[k].os = "running"}) <= 1
  /\ spawnI \in {Len(stageLog), Len(stageLog) + 1}

\* every stage but the first is given the captured stdout of the one before
MixedPassesOutput ==
  \A k \in 2..Len(stageLog) :
    /\ stageLog[k].input = stageLog[k - 1].stdout
    /\ stageLog[k].fed # "none"

\* the first stage that ends with a non-zero exit code ends the pipeline
MixedEarlyExit ==
  \A k \in 1..Len(stageLog) :
    (stageLog[k].done /\ stageLog[k].result.exitCode # 0)
      => /\ k = Len(stageLog)
         /\ resolved
         /\ pipeResult = stageLog[k].result
         /\ pipePc = "returned"

\* C20: in a pipeline that mixes script steps with process steps, stage i+1
\* is started only after stage i has completed, it is given stage i's
\* captured stdout as its input, and the first stage that ends with a
\* non-zero exit code ends the pipeline with that stage's result, no later
\* stage being started.
C20_MixedSequential ==
  pipeMode = "mixed"
    => MixedSequential /\ MixedPassesOutput /\ MixedEarlyExit

\* the second stage was given the non-empty stdout of the first and failed,
\* a third stage never being started
C20_Witness ==
  /\ pipeMode = "mixed"
  /\ Len(commands) > 2
  /\ Len(stageLog) = 2
  /\ stageLog[1].stdout # Empty
  /\ stageLog[2].input = stageLog[1].stdout
  /\ stageLog[2].done
  /\ stageLog[2].result.exitCode # 0
  /\ resolved

\* the result came from the 'close' of a process that a signal terminated:
\* the only process of the pipeline, or the last of a process pipeline
KilledBySignal ==
  /\ pipeMode \in {"single", "chain"}
  /\ resolved
  /\ pipeResult.stderr.kind = "captured"
  /\ LastProcess.os = "exited"
  /\ LastProcess.code = NullCode

\* C25: a process terminated by a signal is reported as a failure: the
\* result of a single-stage pipeline, and of a multi-stage pipeline whose
\* last stage was killed by a signal, has a non-zero exit code.
C25_SignalIsFailure ==
  KilledBySignal => pipeResult.exitCode # 0

\* C39: in a mixed pipeline every process stage that receives its input
\* from the previous stage has its stdin closed after the input is
\* written, the empty string included.
C39_StdinClosed ==
  \A k \in 1..Len(stageLog) :
    stageLog[k].stage > 1 /\ stageLog[k].fed \in {"stdin", "open"} =>
      stageLog[k].fed = "stdin"

\* a stage that is given a non-empty input has it written and its stdin
\* ended
NonEmptyInputClosed ==
  \A k \in 1..Len(stageLog) :
    stageLog[k].fed \in {"stdin", "open"} /\ stageLog[k].input # Empty =>
      stageLog[k].fed = "stdin"

\* ------------------------------------------------------------------------
\* Pipelines with output redirections
\* ------------------------------------------------------------------------

\* the PipelineCommand values of the pipelines with output redirections;
\* "d/w" is in a directory that does not exist
RedirectedSamples ==
  {Stage("cat", <<>>),
   Stage("nope", <<>>),
   Stage("js", <<>>),
   Stage("cat", <<Redir("<", "f")>>),
   Stage("cat", <<Redir(">", "w")>>),
   Stage("cat", <<Redir(">>", "w")>>),
   Stage("cat", <<Redir(">", "d/w")>>),
   Stage("cat", <<Redir(">", "w"), Redir(">>", "v")>>),
   Stage("cat", <<Redir(">>", "v"), Redir(">", "w")>>)}

RedirectedInputs ==
  UNION {[1..n -> RedirectedSamples] : n \in 0..MaxRedirected}

InitRedirected ==
  \E cmds \in RedirectedInputs, c \in FileContents :
    /\ PipeAt(cmds, FALSE, "start")
    /\ FileAt(c)

\* the positions of the processes whose stdout is piped to the write stream
Writers ==
  {k \in 1..Len(processes) : processes[k].stdout.kind = "file"}

\* a file that every open leaves as it was
ContentAtOpenKept(w) == w.content

\* the content of the file of `w` once opened: flag 'w' truncates it
ContentAtOpen(w) == IF w.append THEN w.content ELSE Empty

\* the write stream opens its file: flag 'w' truncates it, flag 'a' does
\* not; when the open fails the stream emits 'error', and no listener was
\* attached to it (lines 555-561, 803-809)
WriterOpen ==
  /\ outFile.state = "pending"
  /\ IF outFile.target \in Writable
       THEN /\ outFile' =
                 [outFile EXCEPT
                    !.state = "open",
                    !.content = ContentAtOpen(outFile)]
            /\ UNCHANGED unhandled
       ELSE /\ outFile' = [outFile EXCEPT !.state = "failed"]
            /\ unhandled' = TRUE
  /\ UNCHANGED <<varsJobs, varsChain, varsPipe, varsParse>>

\* the process has ended and the write stream has written what it wrote
\* to stdout (`raw`; nothing for a process that was never spawned)
WriterFinish(raw) ==
  /\ outFile.state = "open"
  /\ \E k \in Writers :
       /\ processes[k].os # "running"
       /\ processes[k].os = "nospawn" => raw = Empty
  /\ outFile' = [outFile EXCEPT !.state = "done",
                                !.written = raw,
                                !.content = outFile.content \o raw]
  /\ UNCHANGED unhandled
  /\ UNCHANGED <<varsJobs, varsChain, varsPipe, varsParse>>

NextRedirected ==
  \/ NextPipe
  \/ WriterOpen
  \/ \E raw \in RawOutputs : WriterFinish(raw)

\* the position in the pipeline of the stage process k was spawned for
StageOf(k) == processes[k].stage

\* C21: in every multi-stage pipeline only the first stage can have its
\* stdin bound to an input-redirection file and only the last stage can
\* have its stdout bound to an output-redirection file; the stdout of every
\* other stage goes to the next stage and the stdin of every other stage
\* comes from the previous one, whatever redirections the stages carry.
C21_RedirectionEnds ==
  Len(commands) > 1 =>
    \A k \in 1..Len(processes) :
      /\ processes[k].stdin.kind = "file" => StageOf(k) = 1
      /\ processes[k].stdout.kind = "file" => StageOf(k) = Len(commands)
      /\ StageOf(k) > 1 => processes[k].stdin \in {Piped, InputText}
      /\ StageOf(k) < Len(commands) => processes[k].stdout \in {Piped, Captured}

\* the pipelines of OS processes only are wired as C21 says
ProcessOnlyRedirectionEnds ==
  pipeMode = "chain" =>
    \A k \in 1..Len(processes) :
      /\ processes[k].stdin = ChainStdin(commands, k)
      /\ processes[k].stdin.kind = "file" => k = 1
      /\ processes[k].stdout.kind = "file" => k = Len(commands)
      /\ k > 1 => processes[k].stdin = Piped
      /\ k < Len(commands) => processes[k].stdout = Piped

\* the content of the file once the stream `w` has opened it and written
\* `raw`, as C22 states it
ContentAfter(w, raw) ==
  (IF w.append THEN w.before ELSE Empty) \o raw

\* C22: '>' truncates and '>>' appends: once the command has run, the file
\* of '> f' holds exactly the stdout of the command whatever it held before,
\* and the file of '>> f' holds what it held before followed by the stdout
\* of the command.
C22_TruncateOrAppend ==
  outFile.state = "done" =>
    /\ outFile.content = ContentAfter(outFile, outFile.written)
    /\ \E k \in Writers :
         /\ processes[k].stdout = File(outFile.target)
         /\ LET r == commands[StageOf(k)].redirections[
                        FindOutput(commands[StageOf(k)])]
            IN  /\ r.target = outFile.target
                /\ outFile.append <=> r.type = ">>"

\* both modes have written their output over a file that was not empty
C22_Witness ==
  /\ outFile.state = "done"
  /\ outFile.before # Empty
  /\ outFile.written # Empty
  /\ outFile.append

\* a '>' has replaced the content of a file that was not empty
TruncateWitness ==
  /\ outFile.state = "done"
  /\ outFile.before # Empty
  /\ outFile.written # Empty
  /\ ~outFile.append

\* the positions of the output redirections of a command
OutputIndexes(cmd) ==
  {k \in 1..Len(cmd.redirections) : cmd.redirections[k].type \in {">", ">>"}}

\* the output redirection that comes first in the list of a command
FirstOutput(cmd) ==
  cmd.redirections[CHOOSE k \in OutputIndexes(cmd) :
                     \A j \in OutputIndexes(cmd) : k <= j]

\* the stage of process k carries more than one output redirection
SeveralOutputs(k) == Cardinality(OutputIndexes(commands[StageOf(k)])) > 1

SingleSeveralOutputs ==
  /\ Len(commands) = 1
  /\ outFile.state = "done"
  /\ outFile.written # Empty
  /\ \E k \in Writers : SeveralOutputs(k)

\* C40: when a pipeline with an output redirection returns its result,
\* everything the redirected command wrote is already in the target file:
\* nothing reaches the file after the return.
C40_Step == resolved => outFile'.content = outFile.content

C40_WrittenBeforeReturn == [][C40_Step]_vars

\* the write stream ends only after its process has ended
WriterEndsAfterProcess ==
  outFile.state = "done" =>
    \E k \in Writers : processes[k].os # "running"

\* the pipeline has met an execution-time failure: a program that could not
\* be spawned, or a redirection target that could not be opened
SpawnFailed ==
  \E k \in 1..Len(processes) :
    processes[k].os = "nospawn" /\ ~processes[k].errPending
InputOpenFailed == pipeResult.stderr.kind = "cannot-open"
OutputOpenFailed == outFile.state = "failed"

\* the result is a failure with a stderr text
FailureResult(r) ==
  /\ r.exitCode # 0
  /\ r.stderr.kind \in {"cannot-open", "failed-exec", "pipeline-error"}

\* C24: execution-time failures are returned, not thrown: a program that
\* cannot be spawned or a redirection target that cannot be opened makes the
\* execution complete with a non-zero exit code and a stderr text, never
\* with a thrown or unhandled error.
C24_FailuresReturned ==
  /\ ~unhandled
  /\ resolved /\ (SpawnFailed \/ InputOpenFailed \/ OutputOpenFailed)
       => FailureResult(pipeResult)

\* a failed spawn and an input file that cannot be opened are returned
SpawnAndInputFailuresReturned ==
  resolved /\ pipeMode \in {"single", "chain"}
           /\ (SpawnFailed \/ InputOpenFailed)
    => FailureResult(pipeResult)

\* ------------------------------------------------------------------------
\* PipelineManager.executeCommandChain over executePipeline
\* ------------------------------------------------------------------------

\* the pipelines parsePipeline produces for the links of the model
LinkPipelines ==
  {<<>>,
   <<Stage("cat", <<>>)>>,
   <<Stage("nope", <<>>)>>,
   <<Stage("cat", <<>>), Stage("nope", <<>>)>>,
   <<Stage("js", <<>>), Stage("cat", <<>>)>>}

\* chains whose links carry the pipeline parsed from them
LinkedChainsOfLength(n) ==
  {c \in [1..n -> [operator : ChainOperators \cup {NoOperator},
                   commands : LinkPipelines]] :
     /\ \A k \in 1..(n - 1) : c[k].operator \in ChainOperators
     /\ c[n].operator = NoOperator}

LinkedInputs == UNION {LinkedChainsOfLength(n) : n \in 1..MaxChained}

InitLinked == \E c \in LinkedInputs : ChainAt(c, "loop")

\* the CommandResult executePipeline resolved to, as the chain sees it: the
\* processes of the model write nothing that is captured
LinkResult(r) ==
  CommandResult(Empty,
                IF r.stderr.kind \in {"none", "captured"}
                  THEN Empty ELSE <<r.stderr.kind>>,
                r.exitCode)

\* iteration chainI runs its link: executePipeline is called (line 302)
LinkStart ==
  /\ chainPc = "loop"
  /\ pipePc = "idle"
  /\ chainI <= Len(chains)
  /\ shouldExecute(chainI)
  /\ commands' = chains[chainI].commands
  /\ pipePc' = "start"
  /\ UNCHANGED <<pipeMode, spawnI, processes, completedProcesses,
                 finalExitCode, finalResult, resolved, pipeResult,
                 pipelineBackground, currentInput, stageLog, orphans>>
  /\ UNCHANGED <<varsJobs, varsChain, varsFile, varsParse>>

\* the processes of the pipeline that still run
StillRunning ==
  Cardinality({k \in 1..Len(processes) : processes[k].os = "running"})

\* the promise of executePipeline is resolved and the `await` of line 302
\* goes on (lines 302-310); the processes the pipeline left running are
\* nobody's any more
LinkSettle ==
  /\ chainPc = "loop"
  /\ pipePc \notin {"idle", "start"}
  /\ resolved
  /\ lastResult' = LinkResult(pipeResult)
  /\ combinedStdout' = Combine(combinedStdout, lastResult'.stdout)
  /\ combinedStderr' = Combine(combinedStderr, lastResult'.stderr)
  /\ linkLog' = Append(linkLog, [ran |-> TRUE, threw |-> FALSE,
                                 result |-> lastResult'])
  /\ chainI' = chainI + 1
  /\ orphans' = orphans + StillRunning
  /\ commands' = <<>>
  /\ pipeMode' = "none"
  /\ pipePc' = "idle"
  /\ spawnI' = 1
  /\ processes' = <<>>
  /\ completedProcesses' = 0
  /\ finalExitCode' = 0
  /\ finalResult' = NoPResult
  /\ resolved' = FALSE
  /\ pipeResult' = NoPResult
  /\ currentInput' = Empty
  /\ stageLog' = <<>>
  /\ UNCHANGED <<chains, chainPc, chainReturn, pipelineBackground>>
  /\ UNCHANGED <<varsJobs, varsFile, varsParse>>

\* a process left running by an earlier pipeline ends
OrphanExit ==
  /\ orphans > 0
  /\ orphans' = orphans - 1
  /\ UNCHANGED <<commands, pipeMode, pipePc, spawnI, processes,
                 completedProcesses, finalExitCode, finalResult, resolved,
                 pipeResult, pipelineBackground, currentInput, stageLog>>
  /\ UNCHANGED <<varsJobs, varsChain, varsFile, varsParse>>

NextLinked ==
  \/ LinkStart
  \/ LinkSettle
  \/ ChainSkipLink
  \/ ChainReturn
  \/ OrphanExit
  \/ NextPipe

\* a process of the link under evaluation has been spawned
LinkSpawned ==
  \E k \in 1..Len(processes) : processes[k].os # "nospawn"

\* C18: chain links never run concurrently: no process of a link is
\* spawned while a process spawned for an earlier link is still running,
\* also when that earlier link ended with a spawn failure in a multi-stage
\* pipeline.
C18_LinksSequential ==
  LinkSpawned => orphans = 0

\* a link leaves a process running only when its pipeline ended with the
\* spawn failure of a multi-stage process pipeline
OrphansOnlyAfterSpawnFailure ==
  orphans > 0
    => \E k \in 1..Len(linkLog) :
         linkLog[k].result.stderr = <<"pipeline-error">>

\* ------------------------------------------------------------------------
\* The parser of PipelineManager
\* ------------------------------------------------------------------------

\* strings are sequences of characters; the characters of the input lines
Quotes == {"\"", "'"}
Alphabet == {"a", " ", "|", ">", "<", "&", ";"} \cup Quotes

Lines == UNION {[1..n -> Alphabet] : n \in 0..MaxLine}

\* nothing has been parsed
NoParse == [op |-> "none"]

IdleParse ==
  /\ line = Empty
  /\ parsed = NoParse

InitParse ==
  /\ line \in Lines
  /\ parsed = NoParse

\* text.replace(/\s+/g, ' ')
RECURSIVE Collapse(_)
Collapse(t) ==
  IF t = Empty THEN Empty
  ELSE IF Head(t) \in Whitespace
    THEN IF Len(t) > 1 /\ t[2] \in Whitespace
           THEN Collapse(Tail(t))
           ELSE <<" ">> \o Collapse(Tail(t))
    ELSE <<Head(t)>> \o Collapse(Tail(t))

\* input.trim().replace(/\s+/g, ' ')  (line 338)
Normalized(input) == Collapse(Trim(input))

\* text.endsWith(suffix)
EndsWith(t, suffix) ==
  /\ Len(t) >= Len(suffix)
  /\ SubSeq(t, Len(t) - Len(suffix) + 1, Len(t)) = suffix

\* a background test that asks for no whitespace before the '&'
IsBackgroundAnyAmp(normalized) == EndsWith(normalized, <<"&">>)

\* normalized.endsWith(' &')  (line 341)
IsBackground(normalized) == EndsWith(normalized, <<" ", "&">>)

\* background ? normalized.slice(0, -2).trim() : normalized  (line 342)
CommandLine(input) ==
  LET normalized == Normalized(input)
  IN  IF IsBackground(normalized)
        THEN Trim(SubSeq(normalized, 1, Len(normalized) - 2))
        ELSE normalized

\* the scanner state of splitByPipes and tokenize
Scan(items, current, inQuotes, quoteChar) ==
  [items |-> items, current |-> current, inQuotes |-> inQuotes,
   quoteChar |-> quoteChar]

\* a split that takes every '|' for a separator
SplitStepUnquoted(st, char) ==
  IF char = "|"
    THEN IF Trim(st.current) # Empty
           THEN [st EXCEPT !.items = Append(@, Trim(st.current)),
                           !.current = Empty]
           ELSE st
    ELSE [st EXCEPT !.current = @ \o <<char>>]

\* one iteration of the loop of splitByPipes (lines 367-386)
SplitStep(st, char) ==
  IF char \in Quotes /\ ~st.inQuotes
    THEN [st EXCEPT !.inQuotes = TRUE, !.quoteChar = char,
                    !.current = @ \o <<char>>]
  ELSE IF char = st.quoteChar /\ st.inQuotes
    THEN [st EXCEPT !.inQuotes = FALSE, !.quoteChar = "",
                    !.current = @ \o <<char>>]
  ELSE IF char = "|" /\ ~st.inQuotes
    THEN IF Trim(st.current) # Empty
           THEN [st EXCEPT !.items = Append(@, Trim(st.current)),
                           !.current = Empty]
           ELSE st
  ELSE [st EXCEPT !.current = @ \o <<char>>]

RECURSIVE SplitFrom(_, _, _)
SplitFrom(input, i, st) ==
  IF i > Len(input)
    THEN IF Trim(st.current) # Empty
           THEN Append(st.items, Trim(st.current))
           ELSE st.items
    ELSE SplitFrom(input, i + 1, SplitStep(st, input[i]))

\* splitByPipes(input)  (lines 361-393)
splitByPipes(input) == SplitFrom(input, 1, Scan(<<>>, Empty, FALSE, ""))

\* if (current) { tokens.push(current); current = '' }
Flush(st) ==
  IF st.current # Empty
    THEN [st EXCEPT !.items = Append(@, st.current), !.current = Empty]
    ELSE st

\* tokenize(input) from position i on  (lines 439-486)
RECURSIVE TokenizeFrom(_, _, _)
TokenizeFrom(input, i, st) ==
  IF i > Len(input) THEN Flush(st).items
  ELSE
    LET char == input[i] IN
    IF char \in Quotes /\ ~st.inQuotes
      THEN TokenizeFrom(input, i + 1,
                        [st EXCEPT !.inQuotes = TRUE, !.quoteChar = char])
    ELSE IF char = st.quoteChar /\ st.inQuotes
      THEN TokenizeFrom(input, i + 1,
                        [st EXCEPT !.inQuotes = FALSE, !.quoteChar = ""])
    ELSE IF ~st.inQuotes /\ char = ">"
            /\ i < Len(input) /\ input[i + 1] = ">"
      THEN TokenizeFrom(input, i + 2,
                        [Flush(st) EXCEPT !.items = Append(@, <<">", ">">>)])
    ELSE IF ~st.inQuotes /\ char \in {">", "<"}
      THEN TokenizeFrom(input, i + 1,
                        [Flush(st) EXCEPT !.items = Append(@, <<char>>)])
    ELSE IF ~st.inQuotes /\ char = " "
      THEN TokenizeFrom(input, i + 1, Flush(st))
    ELSE TokenizeFrom(input, i + 1, [st EXCEPT !.current = @ \o <<char>>])

\* a tokenizer that takes every quote character for a delimiter
tokenizeAllQuotes(input) ==
  TokenizeFrom(SelectSeq(input, LAMBDA c : c \notin Quotes), 1,
               Scan(<<>>, Empty, FALSE, ""))

\* tokenize(input)  (lines 433-487)
tokenize(input) == TokenizeFrom(input, 1, Scan(<<>>, Empty, FALSE, ""))

\* the tokens parseCommand takes for redirection operators (line 410)
RedirectionTokens == {<<">">>, <<">", ">">>, <<"<">>}

\* the values parseCommand ends with: a command, null, or a throw
ParsedCommand(command, args, redirections) ==
  [kind |-> "command", command |-> command, args |-> args,
   redirections |-> redirections]
NullCommand == [kind |-> "null"]
MissingTarget(token) == [kind |-> "threw", operator |-> token]

\* the loop of parseCommand from token i on  (lines 407-425)
RECURSIVE ParseFrom(_, _, _, _)
ParseFrom(tokens, i, args, redirections) ==
  IF i > Len(tokens)
    THEN ParsedCommand(tokens[1], args, redirections)
  ELSE IF tokens[i] \in RedirectionTokens
    THEN IF i + 1 > Len(tokens)
           THEN MissingTarget(tokens[i])
           ELSE ParseFrom(tokens, i + 2, args,
                          Append(redirections,
                                 [type |-> tokens[i],
                                  target |-> tokens[i + 1],
                                  append |-> tokens[i] = <<">", ">">>]))
    ELSE ParseFrom(tokens, i + 1, Append(args, tokens[i]), redirections)

\* parseCommand(segment)  (lines 398-428)
parseCommand(segment) ==
  LET tokens == tokenize(segment)
  IN  IF Len(tokens) = 0 THEN NullCommand
      ELSE ParseFrom(tokens, 2, <<>>, <<>>)

\* the loop of parsePipeline over the segments from k on (lines 348-353):
\* the commands, or the first throw
RECURSIVE CommandsFrom(_, _, _)
CommandsFrom(segments, k, cmds) ==
  IF k > Len(segments) THEN [kind |-> "commands", commands |-> cmds]
  ELSE
    LET parsedCommand == parseCommand(Trim(segments[k])) IN
    IF parsedCommand.kind = "threw" THEN parsedCommand
    ELSE IF parsedCommand.kind = "null"
      THEN CommandsFrom(segments, k + 1, cmds)
    ELSE CommandsFrom(segments, k + 1, Append(cmds, parsedCommand))

\* parsePipeline(input)  (lines 336-356)
parsePipeline(input) ==
  LET r == CommandsFrom(splitByPipes(CommandLine(input)), 1, <<>>)
  IN  IF r.kind = "threw"
        THEN [op |-> "parsePipeline", threw |-> TRUE,
              operator |-> r.operator, commands |-> <<>>,
              background |-> FALSE]
        ELSE [op |-> "parsePipeline", threw |-> FALSE,
              operator |-> Empty, commands |-> r.commands,
              background |-> IsBackground(Normalized(input))]

\* the chain operator that starts at position i of input, Empty when none:
\* the alternatives of /&&|\|\||;/ in their order
OperatorAt(input, i) ==
  IF i < Len(input) /\ input[i] = "&" /\ input[i + 1] = "&"
    THEN <<"&", "&">>
  ELSE IF i < Len(input) /\ input[i] = "|" /\ input[i + 1] = "|"
    THEN <<"|", "|">>
  ELSE IF input[i] = ";" THEN <<";">>
  ELSE Empty

\* isCommandChain(input): /&&|\|\||;/.test(input)  (line 245)
isCommandChain(input) ==
  \E i \in 1..Len(input) : OperatorAt(input, i) # Empty

\* input.split(/(\s*(?:&&|\|\||;)\s*)/) taken by pairs (text, operator),
\* from position i on (lines 255-259)
RECURSIVE PartsFrom(_, _, _, _)
PartsFrom(input, i, current, parts) ==
  IF i > Len(input)
    THEN Append(parts, [text |-> current, operator |-> Empty])
  ELSE IF OperatorAt(input, i) # Empty
    THEN PartsFrom(input, i + Len(OperatorAt(input, i)), Empty,
                   Append(parts, [text |-> current,
                                  operator |-> OperatorAt(input, i)]))
  ELSE PartsFrom(input, i + 1, current \o <<input[i]>>, parts)

\* the links pushed for the parts from k on: those whose trimmed text is
\* not empty (lines 257-267)
RECURSIVE LinksFrom(_, _)
LinksFrom(parts, k) ==
  IF k > Len(parts) THEN <<>>
  ELSE IF Trim(parts[k].text) # Empty
    THEN <<[pipeline |-> Trim(parts[k].text),
            operator |-> parts[k].operator]>> \o LinksFrom(parts, k + 1)
  ELSE LinksFrom(parts, k + 1)

\* parseCommandChain(input)  (lines 251-270)
parseCommandChain(input) == LinksFrom(PartsFrom(input, 1, Empty, <<>>), 1)

\* a caller parses `line` as one pipeline
callParsePipeline ==
  /\ parsed = NoParse
  /\ parsed' = parsePipeline(line)
  /\ UNCHANGED line
  /\ UNCHANGED <<varsJobs, varsChain, varsPipe, varsFile>>

\* executeCommand(line) up to the parse of the line (lines 229-238): a
\* chain is split into links, any other line is one pipeline
callExecuteCommand ==
  /\ parsed = NoParse
  /\ parsed' = [op |-> "executeCommand",
                isChain |-> isCommandChain(line),
                chains |-> IF isCommandChain(line)
                             THEN parseCommandChain(line)
                             ELSE <<[pipeline |-> line, operator |-> Empty]>>]
  /\ UNCHANGED line
  /\ UNCHANGED <<varsJobs, varsChain, varsPipe, varsFile>>

NextParse ==
  \/ callParsePipeline
  \/ callExecuteCommand

\* ------------------------------------------------------------------------
\* Parser: properties
\* ------------------------------------------------------------------------

\* the quote that is active just before position i of t ("" when none): a
\* quote character opens a quote when none is active, and only the same
\* character closes it
RECURSIVE QuoteBefore(_, _)
QuoteBefore(t, i) ==
  IF i <= 1 THEN ""
  ELSE LET q == QuoteBefore(t, i - 1)
           c == t[i - 1]
       IN  IF q = "" THEN (IF c \in Quotes THEN c ELSE "")
           ELSE IF c = q THEN "" ELSE q

\* position i of t is outside quotes
Unquoted(t, i) == QuoteBefore(t, i) = ""

\* every quote of t is closed
Balanced(t) == QuoteBefore(t, Len(t) + 1) = ""

\* the character at position i of t is data of a quoted string
QuotedData(t, i) == QuoteBefore(t, i) # "" /\ t[i] # QuoteBefore(t, i)

ParsedPipeline == parsed.op = "parsePipeline"
ParsedLine == parsed.op = "executeCommand"

\* C26: chain operators split a line into links only when they occur
\* outside quotes: an operator inside a quoted string neither makes the
\* line a chain nor splits it.
C26_QuotedOperators ==
  ParsedLine /\ Balanced(line) =>
    (parsed.isChain
       <=> \E i \in 1..Len(line) :
             Unquoted(line, i) /\ OperatorAt(line, i) # Empty)

\* a line with an operator that is not in quotes is a chain
UnquotedOperatorsSplit ==
  ParsedLine =>
    ((\E i \in 1..Len(line) :
        Unquoted(line, i) /\ OperatorAt(line, i) # Empty)
       => parsed.isChain)

\* the numbers of a set in increasing order
RECURSIVE Increasing(_)
Increasing(S) ==
  IF S = {} THEN <<>> ELSE <<Min(S)>> \o Increasing(S \ {Min(S)})

\* the positions of t, in order, that satisfy P
Positions(t, P(_, _)) == Increasing({i \in 1..Len(t) : P(t, i)})

UnquotedPipe(t, i) == t[i] = "|" /\ Unquoted(t, i)

\* the pieces of t between the positions `cuts`, the ends of t included
Pieces(t, cuts) ==
  [k \in 1..(Len(cuts) + 1) |->
     SubSeq(t,
            IF k = 1 THEN 1 ELSE cuts[k - 1] + 1,
            IF k > Len(cuts) THEN Len(t) ELSE cuts[k] - 1)]

\* the segments of t that its unquoted pipes separate
Segments(t) == Pieces(t, Positions(t, UnquotedPipe))

NotBlank(t) == Trim(t) # Empty
HasToken(t) == tokenize(Trim(t)) # <<>>

\* the words of a command in the order they were written, the redirection
\* operators included
RECURSIVE RedirectionWords(_)
RedirectionWords(rs) ==
  IF rs = <<>> THEN <<>>
  ELSE <<Head(rs).type, Head(rs).target>> \o RedirectionWords(Tail(rs))

\* C27 as stated: a line of n non-empty segments separated by unquoted
\* pipes yields exactly n commands.
C27_CommandPerSegment ==
  ParsedPipeline /\ ~parsed.threw /\ Balanced(line) =>
    Len(parsed.commands)
      = Len(SelectSeq(Segments(CommandLine(line)), NotBlank))

\* C27: parsePipeline splits a line at every '|' outside quotes and at no
\* '|' inside quotes: a line that parses yields one command for each
\* segment, between unquoted pipes, that holds a token, in the order of the
\* line; the program of the command is the first token of its segment and
\* its arguments and redirections are the other tokens of that segment.
C27_SplitAtUnquotedPipes ==
  ParsedPipeline /\ ~parsed.threw =>
    LET segs == SelectSeq(Segments(CommandLine(line)), HasToken)
    IN  /\ Len(parsed.commands) = Len(segs)
        /\ \A k \in 1..Len(segs) :
             LET tokens == tokenize(Trim(segs[k]))
                 cmd == parsed.commands[k]
             IN  /\ cmd.command = tokens[1]
                 /\ Len(cmd.args) + 2 * Len(cmd.redirections)
                      = Len(tokens) - 1
                 /\ \A a \in 1..Len(cmd.args) :
                      \E j \in 2..Len(tokens) : tokens[j] = cmd.args[a]

\* a quoted pipe was kept in a word and an unquoted one has split the line
C27_Witness ==
  /\ ParsedPipeline
  /\ ~parsed.threw
  /\ Len(parsed.commands) = 2
  /\ \E k \in 1..2 : parsed.commands[k].command = <<"|">>

\* the number of characters c in the text t
RECURSIVE Count(_, _)
Count(t, c) ==
  IF t = Empty THEN 0
  ELSE (IF Head(t) = c THEN 1 ELSE 0) + Count(Tail(t), c)

\* the number of characters c in the texts of a sequence
RECURSIVE CountAll(_, _)
CountAll(texts, c) ==
  IF texts = <<>> THEN 0
  ELSE Count(Head(texts), c) + CountAll(Tail(texts), c)

\* the program, the arguments and the redirection targets of a command
RECURSIVE Targets(_)
Targets(rs) ==
  IF rs = <<>> THEN <<>> ELSE <<Head(rs).target>> \o Targets(Tail(rs))

Words(cmd) == <<cmd.command>> \o cmd.args \o Targets(cmd.redirections)

\* the number of characters c in the words of the commands
RECURSIVE CountInCommands(_, _)
CountInCommands(cmds, c) ==
  IF cmds = <<>> THEN 0
  ELSE CountAll(Words(Head(cmds)), c) + CountInCommands(Tail(cmds), c)

\* the line, trimmed, ends with an unquoted '&' that follows whitespace
EndsWithBackgroundMark(t) ==
  LET u == Trim(t)
  IN  /\ Len(u) >= 2
      /\ u[Len(u)] = "&"
      /\ u[Len(u) - 1] \in Whitespace
      /\ Unquoted(u, Len(u))

\* C28 as stated: background is true exactly when the trimmed line ends
\* with an unquoted '&' preceded by whitespace.
C28_BackgroundExactly ==
  ParsedPipeline /\ ~parsed.threw =>
    (parsed.background <=> EndsWithBackgroundMark(line))

\* C28: for a line whose quotes are closed and that parses, background is
\* true exactly when the trimmed line ends with an unquoted '&' preceded by
\* whitespace; that '&' is stripped and is in no program, argument or
\* target, while every other '&' of the line is.
C28_Background ==
  ParsedPipeline /\ ~parsed.threw /\ Balanced(line) =>
    /\ parsed.background <=> EndsWithBackgroundMark(line)
    /\ CountInCommands(parsed.commands, "&")
         = Count(line, "&") - (IF parsed.background THEN 1 ELSE 0)

\* a background line with another '&' in it
C28_Witness ==
  /\ ParsedPipeline
  /\ ~parsed.threw
  /\ Balanced(line)
  /\ parsed.background
  /\ CountInCommands(parsed.commands, "&") = 1

\* an unquoted character of RedirectionTokens
UnquotedRedirection(t, i) == t[i] \in {">", "<"} /\ Unquoted(t, i)

\* C29: '>', '>>' and '<' act as redirection operators only outside quotes:
\* a quoted one is an ordinary word, so a line whose '>' and '<' are all in
\* quotes parses without error into commands that have no redirection.
C29_QuotedRedirections ==
  (ParsedPipeline /\ Balanced(line)
                  /\ Positions(line, UnquotedRedirection) = <<>>)
    => /\ ~parsed.threw
       /\ \A k \in 1..Len(parsed.commands) :
            parsed.commands[k].redirections = <<>>

\* the error of a redirection operator without target names the operator,
\* and the parse throws for no other reason
MissingTargetNamesOperator ==
  ParsedPipeline /\ parsed.threw =>
    /\ parsed.operator \in RedirectionTokens
    /\ \E k \in 1..Len(splitByPipes(CommandLine(line))) :
         LET tokens == tokenize(splitByPipes(CommandLine(line))[k])
         IN  tokens # <<>> /\ tokens[Len(tokens)] = parsed.operator

\* a space of the line that is data of a quoted string
QuotedSpace(t, i) == t[i] = " " /\ QuotedData(t, i)

\* C30: whitespace inside quotes is preserved verbatim: the spaces of the
\* quoted strings of a line are all in the programs, arguments and targets
\* of the commands parsed from it.
C30_QuotedWhitespace ==
  ParsedPipeline /\ ~parsed.threw /\ Balanced(line) =>
    CountInCommands(parsed.commands, " ")
      = Len(Positions(line, QuotedSpace))

\* whitespace outside quotes only separates tokens: up to the runs of
\* spaces becoming one space, the spaces of the words are the quoted ones
QuotedSpaceOfNormalized ==
  ParsedPipeline /\ ~parsed.threw /\ Balanced(line) =>
    CountInCommands(parsed.commands, " ")
      = Len(Positions(Normalized(line), QuotedSpace))

\* ------------------------------------------------------------------------
\* The tokenizers
\* ------------------------------------------------------------------------

Backslash == "\\"

\* the characters of the texts given to the tokenizers
TextAlphabet == {"a", " ", ">", Backslash} \cup Quotes

Texts == UNION {[1..n -> TextAlphabet] : n \in 0..MaxText}

InitTokens ==
  /\ line \in Texts
  /\ parsed = NoParse

\* the scanner state of tokenizeCommand (lines 1081-1085)
CommandScan ==
  [tokens |-> <<>>, current |-> Empty, inSingleQuote |-> FALSE,
   inDoubleQuote |-> FALSE, escaped |-> FALSE]

\* if (current) { tokens.push(current); current = '' }
Push(st) ==
  IF st.current # Empty
    THEN [st EXCEPT !.tokens = Append(@, st.current), !.current = Empty]
    ELSE st

\* tokens.push(current); current = ''  (a closing quote, lines 1107-1108)
PushAlways(st) ==
  [st EXCEPT !.tokens = Append(@, st.current), !.current = Empty]

\* a scanner that knows no escape character
CommandStepNoEscape(st, char) ==
  IF char = "'" /\ ~st.inDoubleQuote
    THEN IF st.inSingleQuote
           THEN [PushAlways(st) EXCEPT !.inSingleQuote = FALSE]
           ELSE [Push(st) EXCEPT !.inSingleQuote = TRUE]
  ELSE IF char = "\"" /\ ~st.inSingleQuote
    THEN IF st.inDoubleQuote
           THEN [PushAlways(st) EXCEPT !.inDoubleQuote = FALSE]
           ELSE [Push(st) EXCEPT !.inDoubleQuote = TRUE]
  ELSE IF ~st.inSingleQuote /\ ~st.inDoubleQuote /\ char \in Whitespace
    THEN Push(st)
  ELSE [st EXCEPT !.current = @ \o <<char>>]

\* one iteration of the loop of tokenizeCommand (lines 1087-1150)
CommandStep(st, char) ==
  IF st.escaped
    THEN [st EXCEPT !.current = @ \o <<char>>, !.escaped = FALSE]
  ELSE IF char = Backslash /\ (st.inSingleQuote \/ st.inDoubleQuote)
    THEN [st EXCEPT !.escaped = TRUE]
  ELSE IF char = "'" /\ ~st.inDoubleQuote
    THEN IF st.inSingleQuote
           THEN [PushAlways(st) EXCEPT !.inSingleQuote = FALSE]
           ELSE [Push(st) EXCEPT !.inSingleQuote = TRUE]
  ELSE IF char = "\"" /\ ~st.inSingleQuote
    THEN IF st.inDoubleQuote
           THEN [PushAlways(st) EXCEPT !.inDoubleQuote = FALSE]
           ELSE [Push(st) EXCEPT !.inDoubleQuote = TRUE]
  ELSE IF ~st.inSingleQuote /\ ~st.inDoubleQuote /\ char \in Whitespace
    THEN Push(st)
  ELSE [st EXCEPT !.current = @ \o <<char>>]

RECURSIVE CommandFrom(_, _, _)
CommandFrom(input, i, st) ==
  IF i > Len(input) THEN Push(st).tokens
  ELSE CommandFrom(input, i + 1, CommandStep(st, input[i]))

\* tokenizeCommand(input)  (lines 1080-1158)
tokenizeCommand(input) == CommandFrom(input, 1, CommandScan)

\* parseCommandLine(input)  (lines 1064-1075)
parseCommandLine(input) ==
  LET tokens == tokenizeCommand(Trim(input))
  IN  IF Len(tokens) = 0
        THEN [command |-> Empty, args |-> <<>>]
        ELSE [command |-> tokens[1], args |-> Tail(tokens)]

\* parsePipeline hands a command of the line to tokenize (line 398)
callTokenize ==
  /\ parsed = NoParse
  /\ parsed' = [op |-> "tokenize", tokens |-> tokenize(line)]
  /\ UNCHANGED line
  /\ UNCHANGED <<varsJobs, varsChain, varsPipe, varsFile>>

\* a caller parses `line` with parseCommandLine
callParseCommandLine ==
  /\ parsed = NoParse
  /\ parsed' = [op |-> "parseCommandLine",
                tokens |-> LET r == parseCommandLine(line)
                           IN  <<r.command>> \o r.args]
  /\ UNCHANGED line
  /\ UNCHANGED <<varsJobs, varsChain, varsPipe, varsFile>>

NextTokens ==
  \/ callTokenize
  \/ callParseCommandLine

\* ------------------------------------------------------------------------
\* Tokenizers: properties
\* ------------------------------------------------------------------------

Tokenized == parsed.op = "tokenize"
ParsedCommandLine == parsed.op = "parseCommandLine"

\* the positions of t that hold the character c and satisfy P
Holding(t, c, P(_, _)) == {i \in 1..Len(t) : t[i] = c /\ P(t, i)}

\* every quote character of t occurs an even number of times
EvenQuotes(t) == \A q \in Quotes : Count(t, q) % 2 = 0

HasBackslash(t) == \E i \in 1..Len(t) : t[i] = Backslash

\* C31: for every input with balanced quotes, the tokens of the pipeline
\* tokenizer contain none of the input's quote characters, an escaped
\* quote character apart (the statement as written, for inputs without
\* an escape character).
C31_NoQuoteInTokens ==
  Tokenized /\ Balanced(line) /\ EvenQuotes(line) /\ ~HasBackslash(line) =>
    \A q \in Quotes : CountAll(parsed.tokens, q) = 0

\* C31 (amended): for every input with balanced quotes, the tokens of the
\* pipeline tokenizer contain none of the quote characters that open or
\* close a quoted string, and they contain every quote character of the
\* other kind that stands inside a quoted string.
C31_NoDelimiterInTokens ==
  Tokenized /\ Balanced(line) =>
    \A q \in Quotes :
      CountAll(parsed.tokens, q) = Cardinality(Holding(line, q, QuotedData))

\* a quoted string that holds a quote character of the other kind has
\* been tokenized
C31_Witness ==
  /\ Tokenized
  /\ Balanced(line)
  /\ \E q \in Quotes : Holding(line, q, QuotedData) # {}
  /\ \E q \in Quotes : CountAll(parsed.tokens, q) > 0

\* the quote that is active just before position i of t and whether the
\* character at i is escaped, when a backslash inside an active quote
\* escapes the next character
RECURSIVE EscapeBefore(_, _)
EscapeBefore(t, i) ==
  IF i <= 1 THEN [quote |-> "", escaped |-> FALSE]
  ELSE LET s == EscapeBefore(t, i - 1)
           c == t[i - 1]
       IN  IF s.escaped THEN [s EXCEPT !.escaped = FALSE]
           ELSE IF s.quote # "" /\ c = Backslash
             THEN [s EXCEPT !.escaped = TRUE]
           ELSE IF s.quote = ""
             THEN [s EXCEPT !.quote = IF c \in Quotes THEN c ELSE ""]
           ELSE IF c = s.quote THEN [s EXCEPT !.quote = ""]
           ELSE s

\* the backslash at position i of t escapes the character after it
Escaping(t, i) ==
  LET s == EscapeBefore(t, i)
  IN  t[i] = Backslash /\ s.quote # "" /\ ~s.escaped

\* the quote character at position i of t opens or closes a quote
Delimiting(t, i) ==
  LET s == EscapeBefore(t, i)
  IN  /\ t[i] \in Quotes
      /\ ~s.escaped
      /\ s.quote \in {"", t[i]}

\* the character at position i of t is neither an escaping backslash nor
\* a delimiter
KeptLiterally(t, i) == ~Escaping(t, i) /\ ~Delimiting(t, i)

\* every quote of t is closed and no escape is pending at its end
EscapeBalanced(t) ==
  EscapeBefore(t, Len(t) + 1) = [quote |-> "", escaped |-> FALSE]

\* the tokens hold the backslashes and the quote characters of the line
\* that the escape rule keeps, and no other
EscapeRule ==
  \A c \in Quotes \cup {Backslash} :
    CountAll(parsed.tokens, c)
      = Cardinality(Holding(line, c, KeptLiterally))

\* C32: in every tokenizer (tokenize of PipelineManager and
\* tokenizeCommand of parseCommandLine) a backslash inside an active quote
\* is dropped and the character after it is kept literally, so an escaped
\* quote character is part of the token and does not close the quote; a
\* backslash outside quotes is an ordinary character.
C32_BackslashEscapes ==
  (Tokenized \/ ParsedCommandLine) /\ EscapeBalanced(line) => EscapeRule

\* tokenizeCommand alone follows the escape rule
TokenizeCommandEscapes ==
  ParsedCommandLine /\ EscapeBalanced(line) => EscapeRule

\* parseCommandLine has met an escaped quote character
EscapedQuoteParsed ==
  /\ ParsedCommandLine
  /\ EscapeBalanced(line)
  /\ \E i \in 1..Len(line) : Escaping(line, i)
  /\ \E q \in Quotes : CountAll(parsed.tokens, q) > 0

\* ------------------------------------------------------------------------
\* Specifications
\* ------------------------------------------------------------------------
\* the job manager under any interleaving of its operations and of the
\* notifications of its processes
JobsInit == InitJobs /\ IdleChain /\ IdlePipe /\ IdleFile /\ IdleParse

SpecJobs == JobsInit /\ [][NextJobs]_vars

\* the evaluation of one command chain
ChainInit == InitChain /\ InitJobs /\ IdlePipe /\ IdleFile /\ IdleParse

SpecChain == ChainInit /\ [][NextChain]_vars

\* the execution of one pipeline
PipeInit == InitPipe /\ InitJobs /\ IdleChain /\ IdleFile /\ IdleParse

SpecPipe == PipeInit /\ [][NextPipe]_vars

LinkedInit == InitLinked /\ InitJobs /\ IdlePipe /\ IdleFile /\ IdleParse

SpecLinked == LinkedInit /\ [][NextLinked]_vars

RedirectedInit == InitRedirected /\ InitJobs /\ IdleChain /\ IdleParse

SpecRedirected == RedirectedInit /\ [][NextRedirected]_vars

ParseInit == InitParse /\ InitJobs /\ IdleChain /\ IdlePipe /\ IdleFile

SpecParse == ParseInit /\ [][NextParse]_vars

\* the tokenizers on one text
TokensInit == InitTokens /\ InitJobs /\ IdleChain /\ IdlePipe /\ IdleFile

SpecTokens == TokensInit /\ [][NextTokens]_vars

====
